---------------------------- MODULE Spec2Model ----------------------------
(***************************************************************************)
(* ActiveCampaign -> Postgres sync: the compressed batch store             *)
(* (lib/db/storage.js), the rate limiter (lib/utils/rate-limiter.js) and   *)
(* the dataset syncs that drive them.                                      *)
(*                                                                         *)
(* Five specifications share the variables:                                *)
(*   SpecStore   storeContactsData / storeDealsData / getLatest* called    *)
(*               directly, both categories, a clock for synced_at;         *)
(*   SpecOverlap two invocations of storeContactsData, made by two runs,   *)
(*               whose statements interleave;                              *)
(*   SpecRead    getLatest* and the query-data handler reading what the    *)
(*               store calls left in the table, with damaged payloads;     *)
(*   SpecLimiter fetchAllPages called directly: executeWithRateLimit and   *)
(*               executeWithRetry over requests that take time and fail;   *)
(*   SpecSync    one run of the handler: syncContacts and syncDeals side   *)
(*               by side, each with its metadata, first page, collector    *)
(*               and store, then the run-log record and the response.      *)
(***************************************************************************)
EXTENDS Integers, Sequences, FiniteSets, TLC

VARIABLES
    now,            \* Date.now() / NOW(), in ms
    ac_sync_data,   \* the table: a sequence of rows in insertion order
    nextId,         \* the SERIAL counter of ac_sync_data.id
    store,          \* per category: the running store*Data call
    calls,          \* number of store*Data calls made so far
    lastStored,     \* history: per category, what the last store*Data call that resolved wrote
    readResult,     \* observation: outcome of the read made in the last step
    total,          \* per endpoint: number of records the remote collection holds
    collector,      \* per caller: the running fetchAllPages call
    rl,             \* per caller: the running executeWithRateLimit call
    unit,           \* per caller: one entry per apiCallFactory (executeWithRetry)
    recent,         \* history: start times of the API requests of the last second
    run,            \* the sync handler (pages/api/sync-activecampaign.js)
    sync,           \* per dataset: the running syncContacts / syncDeals call
    ac_sync_logs    \* the run-log table

storeVars == <<ac_sync_data, nextId, store, calls, lastStored>>
limiterVars == <<total, collector, rl, unit, recent>>
syncVars == <<run, sync, ac_sync_logs>>
vars == <<now, storeVars, readResult, limiterVars, syncVars>>

---------------------------------------------------------------------------
(* Bounds of the model *)

MaxRecords == 3
MaxChunkRecords == 2
MaxStoreCalls == 2
MaxPageRecords == 2
MaxPages == 11
MaxFaultyUnits == 1
MaxLatencyMs == 500
TickMs == 500
MaxTotal == 5
MaxClockMs == 1000

(* Program constants *)

STORAGE_BATCH_SIZE == 10000
LIMIT_PER_PAGE == 100
BATCH_SIZE == 10
BATCH_DELAY_MS == 1000
MAX_RETRIES == 3
INITIAL_RETRY_DELAY_MS == 1000

---------------------------------------------------------------------------
(* Helpers *)

Min(a, b) == IF a < b THEN a ELSE b
Max(a, b) == IF a > b THEN a ELSE b
CeilDiv(a, b) == (a + b - 1) \div b

RECURSIVE Flatten(_)
Flatten(ss) == IF ss = <<>> THEN <<>> ELSE Head(ss) \o Flatten(Tail(ss))

Count(s, x) == Cardinality({k \in DOMAIN s : s[k] = x})
Range(s) == {s[k] : k \in DOMAIN s}
SameBag(s, t) ==
    /\ Len(s) = Len(t)
    /\ \A x \in Range(s) \cup Range(t) : Count(s, x) = Count(t, x)

---------------------------------------------------------------------------
(* Records, JSON and gzip *)

Categories == {"contacts", "deals"}

\* A record is an object; "score" may hold a number JSON cannot carry.
\* The records handed to the k-th store call: a prefix of Pool(k), in which
\* ids repeat from the third record on, or one record JSON cannot carry.
Pool(k) ==
    [j \in 1..MaxRecords |->
        [id |-> IF j % 2 = 1 THEN "r1" ELSE "r2", gen |-> k, score |-> "1"]]
LossyRecord(k) == [id |-> "r1", gen |-> k, score |-> "NaN"]
RecordSeqs(k) ==
    {SubSeq(Pool(k), 1, n) : n \in 0..MaxRecords} \cup {<<LossyRecord(k)>>}
Lossless(r) == "score" \notin DOMAIN r \/ r.score # "NaN"

\* JSON.stringify of one array element: NaN is written as null.
JsonValue(r) ==
    [json |-> IF "score" \in DOMAIN r /\ r.score = "NaN"
              THEN [r EXCEPT !.score = "null"] ELSE r]
JSONstringify(batch) == [k \in 1..Len(batch) |-> JsonValue(batch[k])]
JSONparse(text) == [k \in 1..Len(text) |-> text[k].json]

GZIP_MAGIC == "1f8b"
gzip_badHeader(jsonString) == <<"0000">> \o jsonString
gzip(jsonString) == <<GZIP_MAGIC>> \o jsonString
GunzipOk(buffer) == Len(buffer) >= 1 /\ buffer[1] = GZIP_MAGIC
gunzip(buffer) == Tail(buffer)

---------------------------------------------------------------------------
(* lib/db/storage.js: storeContactsData / storeDealsData *)

\* The chunk size the model runs with: BATCH_SIZE, clamped by the bound.
BatchSize == Min(STORAGE_BATCH_SIZE, MaxChunkRecords)

TotalBatches_floor(records) == Len(records) \div BatchSize
\* Math.ceil(contacts.length / BATCH_SIZE)
TotalBatches(records) == CeilDiv(Len(records), BatchSize)
BatchStart(i) == i * BatchSize
BatchEnd(i, records) == Min(BatchStart(i) + BatchSize, Len(records))
Batch_dropsLast(i, records) ==
    SubSeq(records, BatchStart(i) + 1, BatchEnd(i, records) - 1)
\* records.slice(batchStart, batchEnd), 0-based and end-exclusive
Batch(i, records) == SubSeq(records, BatchStart(i) + 1, BatchEnd(i, records))

\* prior is history: the chunks of the complete generation of the category
\* that were in the table when the call was made; orphans is history: the
\* chunks found in the table that the preceding call of the category wrote
\* before it failed or was cut short.
Idle == [pc |-> "idle", records |-> <<>>, syncId |-> 0, i |-> 0, rows |-> {},
         failed |-> "", startedAt |-> 0, prior |-> {}, orphans |-> {}]
Running(c) == store[c].pc \in {"delete", "batch"}

\* The invocations of store<Category>Data that may be in progress: one per
\* category, and a second one of storeContactsData made by another run.
Invocations == Categories \cup {"contacts (next run)"}
\* the data_type an invocation deletes and inserts
CategoryOf(c) == IF c \in Categories THEN c ELSE "contacts"

RowsOf(c) == SelectSeq(ac_sync_data, LAMBDA row : row.data_type = c)
IdsOf(c) == {ac_sync_data[k].id : k \in {j \in DOMAIN ac_sync_data : ac_sync_data[j].data_type = c}}

\* store<c>Data(records, syncId) is entered: the DELETE is sent.
EnterStore(c, records, syncId) ==
    /\ store' = [store EXCEPT ![c] =
                   [pc |-> "delete", records |-> records, syncId |-> syncId,
                    i |-> 0, rows |-> {}, failed |-> "", startedAt |-> now,
                    prior |-> IF /\ lastStored[CategoryOf(c)].valid
                                 /\ lastStored[CategoryOf(c)].rows \subseteq IdsOf(CategoryOf(c))
                              THEN lastStored[CategoryOf(c)].rows ELSE {},
                    orphans |-> IF store[c].pc \in {"raised", "interrupted"}
                                THEN store[c].rows \cap IdsOf(CategoryOf(c)) ELSE {}]]
    /\ calls' = calls + 1

\* A caller invokes store<c>Data(records, syncId), one call at a time.
StoreCall(c) ==
    /\ \A other \in Categories : ~Running(other)
    /\ calls < MaxStoreCalls
    /\ \E records \in RecordSeqs(calls + 1) : EnterStore(c, records, calls + 1)
    /\ readResult' = <<>>
    /\ UNCHANGED <<now, ac_sync_data, nextId, lastStored, limiterVars, syncVars>>

\* A run calls store<Category>Data while the call of another run may be in
\* progress: nothing in the function or in its callers takes a lock.
StoreCallOverlapping(c) ==
    /\ store[c].pc = "idle"
    /\ calls < MaxStoreCalls
    /\ \E records \in RecordSeqs(calls + 1) : EnterStore(c, records, calls + 1)
    /\ readResult' = <<>>
    /\ UNCHANGED <<now, ac_sync_data, nextId, lastStored, limiterVars, syncVars>>

AfterDelete_entersLoop(c) == "batch"
\* DELETE FROM ac_sync_data WHERE data_type = c, then the loop is entered.
AfterDelete(c) ==
    IF TotalBatches(store[c].records) = 0 THEN "done" ELSE "batch"

Finish(c, rows) ==
    [lastStored EXCEPT ![CategoryOf(c)] = [valid |-> TRUE, rows |-> rows,
                               records |-> store[c].records]]

DeleteCategory_nothing(c) == ac_sync_data
DeleteCategory_everything(c) == <<>>
DeleteCategory_completeOnly(c) ==
    SelectSeq(ac_sync_data, LAMBDA row : row.data_type # c \/ row.id \notin lastStored[c].rows)
\* DELETE FROM ac_sync_data WHERE data_type = c: the rows that remain
DeleteCategory(c) == SelectSeq(ac_sync_data, LAMBDA row : row.data_type # c)

StoreDelete(c) ==
    /\ store[c].pc = "delete"
    /\ \/ /\ ac_sync_data' = DeleteCategory(CategoryOf(c))
          /\ store' = [store EXCEPT ![c].pc = AfterDelete(c),
                                    ![c].startedAt = IF AfterDelete(c) = "done" THEN 0 ELSE now]
          /\ lastStored' = IF AfterDelete(c) = "done" THEN Finish(c, {}) ELSE lastStored
       \/ \* the statement fails: caught and rethrown as "Database storage failed"
          /\ store' = [store EXCEPT ![c].pc = "raised", ![c].failed = "delete",
                                    ![c].startedAt = 0]
          /\ UNCHANGED <<ac_sync_data, lastStored>>
    /\ readResult' = <<>>
    /\ UNCHANGED <<now, nextId, calls, limiterVars, syncVars>>

NewRow_countsAll(c) ==
    LET batch == Batch(store[c].i, store[c].records) IN
    [id |-> nextId,
     data_type |-> CategoryOf(c),
     json_data_compressed |-> gzip(JSONstringify(batch)),
     record_count |-> Len(store[c].records),
     synced_at |-> now,
     sync_id |-> <<store[c].syncId, store[c].i>>]
NewRow(c) ==
    LET batch == Batch(store[c].i, store[c].records) IN
    [id |-> nextId,
     data_type |-> CategoryOf(c),
     json_data_compressed |-> gzip(JSONstringify(batch)),
     record_count |-> Len(batch),
     synced_at |-> now,
     sync_id |-> <<store[c].syncId, store[c].i>>]

\* Between `await gzip(jsonString)` and the INSERT the buffer is only
\* measured for the log line: whatever gzip returned is handed to the INSERT.
InsertsBuffer(compressed) == TRUE
UniqueViolation(row) ==
    \E k \in DOMAIN ac_sync_data :
        /\ ac_sync_data[k].data_type = row.data_type
        /\ ac_sync_data[k].sync_id = row.sync_id

\* One iteration of the loop: slice, stringify, gzip, INSERT; synced_at
\* defaults to NOW() at the INSERT.
StoreBatch(c) ==
    /\ store[c].pc = "batch"
    /\ \/ /\ InsertsBuffer(NewRow(c).json_data_compressed)
          /\ ~UniqueViolation(NewRow(c))
          /\ ac_sync_data' = Append(ac_sync_data, NewRow(c))
          /\ nextId' = nextId + 1
          /\ LET rows == store[c].rows \cup {nextId}
                 last == store[c].i + 1 = TotalBatches(store[c].records)
             IN /\ store' = [store EXCEPT ![c].i = @ + 1, ![c].rows = rows,
                                          ![c].pc = IF last THEN "done" ELSE "batch",
                                          ![c].startedAt = IF last THEN 0 ELSE now]
                /\ lastStored' = IF last THEN Finish(c, rows) ELSE lastStored
       \/ \* gzip rejects or the INSERT fails: caught and rethrown
          /\ store' = [store EXCEPT ![c].pc = "raised", ![c].failed = "chunk",
                                    ![c].startedAt = 0]
          /\ UNCHANGED <<ac_sync_data, nextId, lastStored>>
    /\ readResult' = <<>>
    /\ UNCHANGED <<now, calls, limiterVars, syncVars>>

\* The process is stopped while the call is in progress (function timeout).
StoreInterrupt(c) ==
    /\ Running(c)
    /\ store' = [store EXCEPT ![c].pc = "interrupted", ![c].startedAt = 0]
    /\ readResult' = <<>>
    /\ UNCHANGED <<now, ac_sync_data, nextId, calls, lastStored, limiterVars, syncVars>>

---------------------------------------------------------------------------
(* lib/db/storage.js: getLatestContacts / getLatestDeals *)

\* The orders ORDER BY synced_at DESC allows for the rows of category c.
RowOrders(c) ==
    LET rows == RowsOf(c)
        n == Len(rows)
    IN { p \in [1..n -> 1..n] :
           /\ \A a, b \in 1..n : a # b => p[a] # p[b]
           /\ \A a, b \in 1..n : a < b => rows[p[a]].synced_at >= rows[p[b]].synced_at }

GetLatest(c, p) ==
    LET rows == RowsOf(c)
        result == [k \in 1..Len(rows) |-> rows[p[k]]]
    IN IF \E k \in 1..Len(result) : ~GunzipOk(result[k].json_data_compressed)
       THEN [type |-> c, status |-> "raised", records |-> <<>>]
       ELSE [type |-> c, status |-> "ok",
             records |-> Flatten([k \in 1..Len(result) |->
                            JSONparse(gunzip(result[k].json_data_compressed))])]

Load(c) ==
    /\ \E p \in RowOrders(c) : readResult' = <<GetLatest(c, p)>>
    /\ UNCHANGED <<now, storeVars, limiterVars, syncVars>>

---------------------------------------------------------------------------
(* pages/api/query-data.js: GET /api/query-data?type=...&limit=...&offset=... *)

QUERY_LIMIT == 100
QUERY_OFFSET == 0

Methods == {"GET", "POST"}
QueryTypes == Categories \cup {"leads"}

\* the request a response in readResult answers
QueryUrl(type) ==
    CASE type = "contacts" -> "/api/query-data?type=contacts"
      [] type = "deals" -> "/api/query-data?type=deals"
      [] OTHER -> "/api/query-data?type="

\* SELECT id, synced_at, record_count, sync_id ... ORDER BY synced_at DESC, id ASC
BatchInfo(type) ==
    LET rows == RowsOf(type)
        p == CHOOSE q \in RowOrders(type) :
                 \A a, b \in DOMAIN rows :
                     (a < b /\ rows[q[a]].synced_at = rows[q[b]].synced_at)
                         => rows[q[a]].id < rows[q[b]].id
    IN [k \in DOMAIN rows |-> rows[p[k]]]

LatestBatches_all(batchInfo) == batchInfo
\* the rows whose synced_at is that of the first row of batchInfo
LatestBatches(batchInfo) ==
    SelectSeq(batchInfo, LAMBDA row : row.synced_at = batchInfo[1].synced_at)

\* a payload whose gzip header is destroyed: neither gunzip nor JSON.parse
\* accepts it
DAMAGED == <<"0000">>

\* buffer[0] === 0x1f && buffer[1] === 0x8b
IsGzipped(buffer) == Len(buffer) >= 1 /\ buffer[1] = GZIP_MAGIC

\* JSON.parse(buffer.toString('utf8')) of a payload that is not gzip
PlainJsonOk(buffer) == buffer # DAMAGED

\* the try block for one batch id: the batch, or nothing when it is skipped
DecodeBatch(row) ==
    LET buffer == row.json_data_compressed IN
    IF IsGzipped(buffer)
    THEN [ok |-> GunzipOk(buffer), batch |-> JSONparse(gunzip(buffer))]
    ELSE [ok |-> PlainJsonOk(buffer), batch |-> <<>>]

DecodedBatches_rethrows(latest) ==
    IF \E k \in DOMAIN latest : ~DecodeBatch(latest[k]).ok
    THEN <<>>
    ELSE [k \in DOMAIN latest |-> DecodeBatch(latest[k])]
\* the batches of the latest sync that decode, in order: a batch that throws
\* is logged and skipped
DecodedBatches(latest) ==
    SelectSeq([k \in DOMAIN latest |-> DecodeBatch(latest[k])], LAMBDA d : d.ok)

\* allData.slice(offset, offset + limit)
Paginate(allData, offset, limit) ==
    SubSeq(allData, offset + 1, Min(offset + limit, Len(allData)))

ErrorResponse(type, status, error) ==
    [type |-> QueryUrl(type), status |-> status, error |-> error,
     records |-> <<>>, data |-> <<>>, batches |-> 0, successfulBatches |-> 0]

QueryNotFound_fallsThrough(type) == ErrorResponse(type, 500, "Failed to retrieve data")
\* if (batchInfo.length === 0) return res.status(404)
QueryNotFound(type) == ErrorResponse(type, 404, "No data found")

\* the handler: the response it sends
QueryData(method, type) ==
    IF method # "GET" THEN ErrorResponse(type, 405, "Method not allowed")
    ELSE IF type \notin Categories THEN ErrorResponse(type, 400, "Invalid type parameter")
    ELSE IF RowsOf(type) = <<>> THEN QueryNotFound(type)
    ELSE LET latest == LatestBatches(BatchInfo(type))
             decoded == DecodedBatches(latest)
             allData == Flatten([k \in DOMAIN decoded |-> decoded[k].batch])
         IN IF allData = <<>>
            THEN ErrorResponse(type, 500, "No data could be retrieved")
            ELSE [type |-> QueryUrl(type), status |-> 200, error |-> "",
                  records |-> allData,
                  data |-> Paginate(allData, QUERY_OFFSET, QUERY_LIMIT),
                  batches |-> Len(latest), successfulBatches |-> Len(decoded)]

Query ==
    /\ \E method \in Methods, type \in QueryTypes :
           readResult' = <<QueryData(method, type)>>
    /\ UNCHANGED <<now, storeVars, limiterVars, syncVars>>

\* A stored payload is damaged while no store call runs.
Damage(c) ==
    /\ \A other \in Categories : ~Running(other)
    /\ \E k \in DOMAIN ac_sync_data :
         /\ ac_sync_data[k].data_type = c
         /\ ac_sync_data[k].json_data_compressed # DAMAGED
         /\ ac_sync_data' = [ac_sync_data EXCEPT ![k].json_data_compressed = DAMAGED]
    /\ readResult' = <<>>
    /\ UNCHANGED <<now, nextId, store, calls, lastStored, limiterVars, syncVars>>

---------------------------------------------------------------------------
(* lib/activecampaign/client.js: the remote collection and its pages *)

\* The page size the model runs with: LIMIT_PER_PAGE, clamped by the bound.
PageLimit == Min(LIMIT_PER_PAGE, MaxPageRecords)

\* The n-th contact of the account: some carry field values (of a defined
\* field, of one without a tag, of one that is not defined), some none.
Contact(n) ==
    CASE n % 3 = 1 -> [id |-> n, fieldValues |-> <<[field |-> "1", value |-> "a"],
                                                   [field |-> "9", value |-> "b"]>>]
      [] n % 3 = 2 -> [id |-> n, fieldValues |-> <<[field |-> "2", value |-> "c"]>>]
      [] OTHER     -> [id |-> n]

\* The n-th deal: references that resolve, that are empty, that dangle.
Deal(n) ==
    CASE n % 3 = 1 -> [id |-> n, group |-> "1", stage |-> "1", owner |-> "1",
                       dealCustomFieldData |-> <<[customFieldId |-> "1", fieldValue |-> "x"],
                                                 [customFieldId |-> "2", fieldValue |-> "y"]>>]
      [] n % 3 = 2 -> [id |-> n, group |-> "9", stage |-> "", owner |-> "1",
                       dealCustomFieldData |-> <<[customFieldId |-> "9", fieldValue |-> "z"]>>]
      [] OTHER     -> [id |-> n, group |-> "1", stage |-> "1", owner |-> ""]

\* The remote collection behind endpoint c, in upstream order.
Upstream(c) ==
    [n \in 1..total[c] |-> IF c = "contacts" THEN Contact(n) ELSE Deal(n)]

\* The metadata collections of the account.
Metadata(endpoint) ==
    CASE endpoint = "/fields" ->
           <<[id |-> "1", title |-> "Phone", type |-> "text", perstag |-> "PHONE"],
             [id |-> "2", title |-> "Notes", type |-> "textarea", perstag |-> ""]>>
      [] endpoint = "/dealGroups" ->
           <<[id |-> "1", title |-> "Sales", currency |-> "usd", cdate |-> "2024"]>>
      [] endpoint = "/dealStages" ->
           <<[id |-> "1", title |-> "Open", order |-> "1", dealOrder |-> "next-action",
              group |-> "1", color |-> "blue"]>>
      [] endpoint = "/users" ->
           <<[id |-> "1", username |-> "ana", firstName |-> "Ana", lastName |-> "Lima",
              email |-> "ana@example.com", phone |-> "555"]>>
      [] endpoint = "/dealCustomFieldMeta" ->
           <<[id |-> "1", fieldLabel |-> "Budget", fieldType |-> "currency"],
             [id |-> "2", fieldLabel |-> "", fieldType |-> "text"]>>
      [] OTHER -> <<>>

\* fetchMetadata(endpoint): one request with limit 1000, then extractRecords
fetchMetadata(endpoint) == Metadata(endpoint)

\* What the API answers to ?limit=&offset=
acRequest(c, limit, offset) ==
    SubSeq(Upstream(c), offset + 1, Min(offset + limit, total[c]))

\* fetchPage(endpoint, page, {limit}): offset = (page - 1) * limit
fetchPage(c, page) == acRequest(c, PageLimit, (page - 1) * PageLimit)

fetchFirstPage_countsReturned(c, hasMeta) ==
    LET records == acRequest(c, PageLimit, 0)
    IN [records |-> records, total |-> Len(records)]
\* fetchFirstPage(endpoint, {limit}): total = response.meta?.total || records.length
fetchFirstPage(c, hasMeta) ==
    LET records == acRequest(c, PageLimit, 0)
    IN [records |-> records,
        total |-> IF hasMeta /\ total[c] # 0 THEN total[c] ELSE Len(records)]

\* The Error a failed request throws; each attempt fails with its own message.
ApiError(attempt) == <<"ActiveCampaign API error", attempt>>

\* history: the requests started at `now` join those of the last second.
Started(n) == recent \o [j \in 1..n |-> now]

---------------------------------------------------------------------------
(* lib/utils/rate-limiter.js: executeWithRetry *)

RECURSIVE Pow2(_)
Pow2(n) == IF n = 0 THEN 1 ELSE 2 * Pow2(n - 1)

RetryDelay_linear(attempt) == INITIAL_RETRY_DELAY_MS * (attempt + 1)
\* INITIAL_RETRY_DELAY_MS * Math.pow(2, attempt)
RetryDelay(attempt) == INITIAL_RETRY_DELAY_MS * Pow2(attempt)

\* calls, succeeded and slept are history: the invocations of callFactory,
\* those that returned a value, and the delays handed to sleep().
PendingUnit ==
    [phase |-> "pending", attempt |-> 0, calls |-> 0, succeeded |-> 0,
     slept |-> <<>>, startedAt |-> 0, wake |-> 0, result |-> <<>>, page |-> 0]

\* await callFactory(): the request goes out
Invoke(u) == [u EXCEPT !.phase = "calling", !.calls = @ + 1, !.startedAt = now]

OnSuccess_noReturn(u, value) ==
    IF u.attempt = MAX_RETRIES
    THEN [u EXCEPT !.phase = "resolved", !.startedAt = 0,
                   !.result = <<[success |-> TRUE, data |-> value]>>]
    ELSE Invoke([u EXCEPT !.attempt = @ + 1])
\* return { success: true, data: result }
OnSuccess(u, value) ==
    [u EXCEPT !.phase = "resolved", !.startedAt = 0,
              !.result = <<[success |-> TRUE, data |-> value]>>]

IsLastAttempt_oneMore(attempt) == attempt = MAX_RETRIES + 1
IsLastAttempt(attempt) == attempt = MAX_RETRIES

OnError_rethrows(u, callIndex, error) ==
    IF IsLastAttempt(u.attempt)
    THEN [u EXCEPT !.phase = "rejected", !.startedAt = 0]
    ELSE [u EXCEPT !.phase = "sleeping", !.startedAt = 0,
                   !.slept = Append(@, RetryDelay(u.attempt)),
                   !.wake = now + RetryDelay(u.attempt)]
OnError_groupPosition(u, callIndex, error) ==
    IF IsLastAttempt(u.attempt)
    THEN [u EXCEPT !.phase = "resolved", !.startedAt = 0,
                   !.result = <<[success |-> FALSE, error |-> error,
                                 callIndex |-> callIndex % BATCH_SIZE]>>]
    ELSE [u EXCEPT !.phase = "sleeping", !.startedAt = 0,
                   !.slept = Append(@, RetryDelay(u.attempt)),
                   !.wake = now + RetryDelay(u.attempt)]
\* catch (error): the last attempt returns the failure, the others sleep
OnError(u, callIndex, error) ==
    IF IsLastAttempt(u.attempt)
    THEN [u EXCEPT !.phase = "resolved", !.startedAt = 0,
                   !.result = <<[success |-> FALSE, error |-> error,
                                 callIndex |-> callIndex]>>]
    ELSE [u EXCEPT !.phase = "sleeping", !.startedAt = 0,
                   !.slept = Append(@, RetryDelay(u.attempt)),
                   !.wake = now + RetryDelay(u.attempt)]

\* the sleep is over: attempt++ and the loop body runs again
OnWake(u) == Invoke([u EXCEPT !.attempt = @ + 1, !.wake = 0])

HasFailed(u) ==
    \/ u.phase = "sleeping"
    \/ u.attempt > 0
    \/ u.phase = "resolved" /\ ~u.result[1].success

\* The requests that may fail: those of the first MaxFaultyUnits units of
\* each group.
MayFail(c, k) == (k - 1) % BATCH_SIZE < MaxFaultyUnits

UnitSucceed(c, k) ==
    /\ unit[c][k].phase = "calling"
    /\ unit' = [unit EXCEPT ![c][k] =
                  OnSuccess([@ EXCEPT !.succeeded = @ + 1], fetchPage(c, @.page))]
    /\ readResult' = <<>>
    /\ UNCHANGED <<now, storeVars, total, collector, rl, recent, syncVars>>

UnitFail(c, k) ==
    /\ unit[c][k].phase = "calling"
    /\ MayFail(c, k)
    /\ unit' = [unit EXCEPT ![c][k] = OnError(@, k - 1, ApiError(@.attempt))]
    /\ readResult' = <<>>
    /\ UNCHANGED <<now, storeVars, total, collector, rl, recent, syncVars>>

UnitRetry(c, k) ==
    /\ unit[c][k].phase = "sleeping"
    /\ now >= unit[c][k].wake
    /\ unit' = [unit EXCEPT ![c][k] = OnWake(@)]
    /\ recent' = Started(1)
    /\ readResult' = <<>>
    /\ UNCHANGED <<now, storeVars, total, collector, rl, syncVars>>

---------------------------------------------------------------------------
(* lib/utils/rate-limiter.js: executeWithRateLimit and fetchAllPages *)

RlTotalBatches(totalCalls) == CeilDiv(totalCalls, BATCH_SIZE)
RlBatchStart(batchIndex) == batchIndex * BATCH_SIZE
RlBatchEnd_noSlice(batchIndex, totalCalls) == totalCalls
RlBatchEnd(batchIndex, totalCalls) ==
    Min(RlBatchStart(batchIndex) + BATCH_SIZE, totalCalls)
\* apiCallFactories.slice(batchStart, batchEnd), as positions 1..totalCalls
RlBatch(batchIndex, totalCalls) ==
    (RlBatchStart(batchIndex) + 1) .. RlBatchEnd(batchIndex, totalCalls)

\* Math.max(0, BATCH_DELAY_MS - batchDuration)
WaitTime_none(batchDuration) == 0
\* Math.max(0, BATCH_DELAY_MS - batchDuration)
WaitTime(batchDuration) == Max(0, BATCH_DELAY_MS - batchDuration)

CollectorIdle == [pc |-> "idle", totalPages |-> 0, allRecords |-> <<>>]
\* batches and groups are history: the units of each batch started, and for
\* each batch that has completed its start time, its duration and the time
\* the loop slept after it (0: no sleep).
RlIdle ==
    [pc |-> "idle", totalCalls |-> 0, batchIndex |-> 0, batchStartTime |-> 0,
     wake |-> 0, results |-> <<>>, batches |-> <<>>, groups |-> <<>>]

CurrentBatch(c) == RlBatch(rl[c].batchIndex, rl[c].totalCalls)
Settled(c) == \A k \in CurrentBatch(c) : unit[c][k].phase \in {"resolved", "rejected"}

BatchResults_asSettled(c) ==
    LET first == RlBatchStart(rl[c].batchIndex) + 1
        last == RlBatchEnd(rl[c].batchIndex, rl[c].totalCalls)
        order == [j \in 1..(last - first + 1) |-> first + j - 1]
        early == SelectSeq(order, LAMBDA k : unit[c][k].attempt = 0)
        late == SelectSeq(order, LAMBDA k : unit[c][k].attempt > 0)
    IN [j \in 1..(last - first + 1) |-> unit[c][(early \o late)[j]].result[1]]
BatchResults_reversed(c) ==
    LET first == RlBatchStart(rl[c].batchIndex) + 1
        last == RlBatchEnd(rl[c].batchIndex, rl[c].totalCalls)
    IN [j \in 1..(last - first + 1) |-> unit[c][last - j + 1].result[1]]
\* the array Promise.all resolves to: one result per unit, in batch order
BatchResults(c) ==
    LET first == RlBatchStart(rl[c].batchIndex) + 1
        last == RlBatchEnd(rl[c].batchIndex, rl[c].totalCalls)
    IN [j \in 1..(last - first + 1) |-> unit[c][first + j - 1].result[1]]

\* const pageNumber = i + 1, for the factory at index i
PageNumber(i) == i + 1

EnterFetchAllPages_onePageMore(c, totalPages) ==
    /\ collector' = [collector EXCEPT ![c] =
                       [pc |-> "running", totalPages |-> totalPages, allRecords |-> <<>>]]
    /\ rl' = [rl EXCEPT ![c] = [RlIdle EXCEPT !.pc = "loop", !.totalCalls = totalPages + 1]]
    /\ unit' = [unit EXCEPT ![c] =
                  [k \in 1..(totalPages + 1) |-> [PendingUnit EXCEPT !.page = PageNumber(k - 1)]]]
\* fetchAllPages(fetchPage, totalPages): the factories are built and handed
\* to executeWithRateLimit.
EnterFetchAllPages(c, totalPages) ==
    /\ collector' = [collector EXCEPT ![c] =
                       [pc |-> "running", totalPages |-> totalPages, allRecords |-> <<>>]]
    /\ rl' = [rl EXCEPT ![c] = [RlIdle EXCEPT !.pc = "loop", !.totalCalls = totalPages]]
    /\ unit' = [unit EXCEPT ![c] =
                  [k \in 1..totalPages |-> [PendingUnit EXCEPT !.page = PageNumber(k - 1)]]]

\* A caller invokes fetchAllPages on a collection of totalPages full pages.
FetchAllPagesCall(c) ==
    /\ collector[c].pc = "idle"
    /\ \E totalPages \in 0..MaxPages :
         /\ total' = [total EXCEPT ![c] = totalPages * PageLimit]
         /\ EnterFetchAllPages(c, totalPages)
    /\ readResult' = <<>>
    /\ UNCHANGED <<now, storeVars, recent, syncVars>>

\* The head of the batch loop: every unit of the batch makes its first attempt.
StartBatch(c) ==
    /\ rl[c].pc = "loop"
    /\ rl[c].batchIndex < RlTotalBatches(rl[c].totalCalls)
    /\ unit' = [unit EXCEPT ![c] =
                  [k \in DOMAIN @ |-> IF k \in CurrentBatch(c) THEN Invoke(@[k]) ELSE @[k]]]
    /\ recent' = Started(Cardinality(CurrentBatch(c)))
    /\ rl' = [rl EXCEPT ![c].pc = "awaitAll", ![c].batchStartTime = now,
                        ![c].batches = Append(@, CurrentBatch(c))]
    /\ readResult' = <<>>
    /\ UNCHANGED <<now, storeVars, total, collector, syncVars>>

BatchDone_noAwait(c) ==
    /\ rl[c].pc = "awaitAll"
    /\ LET waitTime == WaitTime(now - rl[c].batchStartTime)
           more == rl[c].batchIndex < RlTotalBatches(rl[c].totalCalls) - 1
       IN rl' = [rl EXCEPT
                   ![c].pc = IF more /\ waitTime > 0 THEN "sleep" ELSE "loop",
                   ![c].wake = IF more /\ waitTime > 0 THEN now + waitTime ELSE 0,
                   ![c].batchIndex = IF more /\ waitTime > 0 THEN @ ELSE @ + 1]
    /\ readResult' = <<>>
    /\ UNCHANGED <<now, storeVars, total, collector, unit, recent, syncVars>>
\* Promise.all settles: results.push(...batchResults), then the pacing wait.
BatchDone(c) ==
    /\ rl[c].pc = "awaitAll"
    /\ Settled(c)
    /\ IF \E k \in CurrentBatch(c) : unit[c][k].phase = "rejected"
       THEN /\ rl' = [rl EXCEPT ![c].pc = "rejected"]
            /\ collector' = [collector EXCEPT ![c].pc = "rejected"]
       ELSE LET batchResults == BatchResults(c)
                waitTime == WaitTime(now - rl[c].batchStartTime)
                more == rl[c].batchIndex < RlTotalBatches(rl[c].totalCalls) - 1
            IN /\ rl' = [rl EXCEPT
                           ![c].results = @ \o batchResults,
                           ![c].groups = Append(@, [startedAt |-> rl[c].batchStartTime,
                                                    duration |-> now - rl[c].batchStartTime,
                                                    slept |-> IF more THEN waitTime ELSE 0]),
                           ![c].pc = IF more /\ waitTime > 0 THEN "sleep" ELSE "loop",
                           ![c].wake = IF more /\ waitTime > 0 THEN now + waitTime ELSE 0,
                           ![c].batchIndex = IF more /\ waitTime > 0 THEN @ ELSE @ + 1]
               /\ UNCHANGED collector
    /\ readResult' = <<>>
    /\ UNCHANGED <<now, storeVars, total, unit, recent, syncVars>>

\* await sleep(waitTime) is over: the next iteration
SleepDone(c) ==
    /\ rl[c].pc = "sleep"
    /\ now >= rl[c].wake
    /\ rl' = [rl EXCEPT ![c].pc = "loop", ![c].wake = 0, ![c].batchIndex = @ + 1]
    /\ readResult' = <<>>
    /\ UNCHANGED <<now, storeVars, total, collector, unit, recent, syncVars>>

AllRecords_stopsAtFailure(results) ==
    LET bad == {j \in DOMAIN results : ~results[j].success}
        upto == IF bad = {} THEN Len(results)
                ELSE (CHOOSE j \in bad : \A m \in bad : j <= m) - 1
    IN Flatten([j \in 1..upto |-> results[j].data])
\* results.filter(r => r.success).flatMap(r => r.data)
AllRecords(results) ==
    Flatten([j \in 1..Len(SelectSeq(results, LAMBDA r : r.success)) |->
                SelectSeq(results, LAMBDA r : r.success)[j].data])

ReturnResults_abortsOnFailure(c) ==
    /\ rl[c].pc = "loop"
    /\ \/ rl[c].batchIndex = RlTotalBatches(rl[c].totalCalls)
       \/ \E k \in DOMAIN rl[c].results : ~rl[c].results[k].success
    /\ rl' = [rl EXCEPT ![c].pc = "returned"]
    /\ collector' = [collector EXCEPT ![c].pc = "returned",
                                      ![c].allRecords = AllRecords(rl[c].results)]
    /\ readResult' = <<>>
    /\ UNCHANGED <<now, storeVars, total, unit, recent, syncVars>>
\* The loop is over: executeWithRateLimit returns results and fetchAllPages
\* returns the records of the successful pages.
ReturnResults(c) ==
    /\ rl[c].pc = "loop"
    /\ rl[c].batchIndex = RlTotalBatches(rl[c].totalCalls)
    /\ rl' = [rl EXCEPT ![c].pc = "returned"]
    /\ collector' = [collector EXCEPT ![c].pc = "returned",
                                      ![c].allRecords = AllRecords(rl[c].results)]
    /\ readResult' = <<>>
    /\ UNCHANGED <<now, storeVars, total, unit, recent, syncVars>>

---------------------------------------------------------------------------
(* lib/sync/contacts.js and lib/sync/deals.js: enrichment *)

\* new Map(list.map(x => [x.id, x])): a later entry replaces an earlier one
MapById(list) ==
    [id \in {list[j].id : j \in DOMAIN list} |->
        list[CHOOSE j \in DOMAIN list :
                 /\ list[j].id = id
                 /\ \A m \in DOMAIN list : list[m].id = id => m <= j]]

\* The object the forEach builds: entries in order, a repeated key overwritten.
ObjectOf(keys, values) ==
    [key \in {keys[j] : j \in DOMAIN keys} |->
        values[CHOOSE j \in DOMAIN keys :
                   /\ keys[j] = key
                   /\ \A m \in DOMAIN keys : keys[m] = key => m <= j]]

FieldKey_alwaysSynthetic(label, id) == "field_" \o id
\* fieldDef.perstag || `field_${fv.field}`
FieldKey(label, id) == IF label # "" THEN label ELSE "field_" \o id

ContactCustomFields(fieldValues, fieldMap) ==
    LET known == SelectSeq(fieldValues, LAMBDA fv : fv.field \in DOMAIN fieldMap)
    IN ObjectOf([j \in DOMAIN known |-> FieldKey(fieldMap[known[j].field].perstag, known[j].field)],
                [j \in DOMAIN known |->
                    [value |-> known[j].value,
                     fieldId |-> known[j].field,
                     fieldTitle |-> fieldMap[known[j].field].title,
                     fieldType |-> fieldMap[known[j].field].type]])

EnrichContact_dropsFieldValues(contact, fieldMap) ==
    IF "fieldValues" \in DOMAIN contact
    THEN [id |-> contact.id,
          customFields |-> ContactCustomFields(contact.fieldValues, fieldMap)]
    ELSE contact
\* const enriched = { ...contact }; enriched.customFields = {...}: an assigned
\* key takes the place of a copied one
EnrichContact(contact, fieldMap) ==
    IF "fieldValues" \in DOMAIN contact
    THEN [customFields |-> ContactCustomFields(contact.fieldValues, fieldMap)] @@ contact
    ELSE contact

DealCustomFields(dealCustomFieldData, customFieldMap) ==
    LET known == SelectSeq(dealCustomFieldData,
                           LAMBDA fd : fd.customFieldId \in DOMAIN customFieldMap)
    IN ObjectOf([j \in DOMAIN known |->
                    FieldKey(customFieldMap[known[j].customFieldId].fieldLabel,
                             known[j].customFieldId)],
                [j \in DOMAIN known |->
                    [value |-> known[j].fieldValue,
                     fieldId |-> known[j].customFieldId,
                     fieldLabel |-> customFieldMap[known[j].customFieldId].fieldLabel,
                     fieldType |-> customFieldMap[known[j].customFieldId].fieldType]])

\* if (deal[key]) { const x = map.get(deal[key]); if (x) ... }
Resolves(deal, key, map) ==
    /\ key \in DOMAIN deal
    /\ deal[key] # ""
    /\ deal[key] \in DOMAIN map

PipelineData(p) == [id |-> p.id, title |-> p.title, currency |-> p.currency]
StageData(s) ==
    [id |-> s.id, title |-> s.title, order |-> s.order, dealOrder |-> s.dealOrder,
     group |-> s.group]
OwnerData(u) ==
    [id |-> u.id, username |-> u.username, firstName |-> u.firstName,
     lastName |-> u.lastName, email |-> u.email]

EnrichDeal_nullWhenMissing(deal, pipelineMap, stageMap, userMap, customFieldMap) ==
    LET withPipeline ==
            IF Resolves(deal, "group", pipelineMap)
            THEN [pipelineData |-> PipelineData(pipelineMap[deal.group])]
            ELSE [pipelineData |-> [id |-> "null"]]
        withStage ==
            IF Resolves(deal, "stage", stageMap)
            THEN [stageData |-> StageData(stageMap[deal.stage])]
            ELSE [stageData |-> [id |-> "null"]]
        withOwner ==
            IF Resolves(deal, "owner", userMap)
            THEN [ownerData |-> OwnerData(userMap[deal.owner])]
            ELSE [ownerData |-> [id |-> "null"]]
        withFields ==
            IF "dealCustomFieldData" \in DOMAIN deal
            THEN [customFields |-> DealCustomFields(deal.dealCustomFieldData, customFieldMap)]
            ELSE <<>>
    IN withFields @@ withOwner @@ withStage @@ withPipeline @@ deal
EnrichDeal(deal, pipelineMap, stageMap, userMap, customFieldMap) ==
    LET withPipeline ==
            IF Resolves(deal, "group", pipelineMap)
            THEN [pipelineData |-> PipelineData(pipelineMap[deal.group])] ELSE <<>>
        withStage ==
            IF Resolves(deal, "stage", stageMap)
            THEN [stageData |-> StageData(stageMap[deal.stage])] ELSE <<>>
        withOwner ==
            IF Resolves(deal, "owner", userMap)
            THEN [ownerData |-> OwnerData(userMap[deal.owner])] ELSE <<>>
        withFields ==
            IF "dealCustomFieldData" \in DOMAIN deal
            THEN [customFields |-> DealCustomFields(deal.dealCustomFieldData, customFieldMap)]
            ELSE <<>>
    IN withFields @@ withOwner @@ withStage @@ withPipeline @@ deal

\* allContacts.map(...) / allDeals.map(...)
Enrich(d, records) ==
    IF d = "contacts"
    THEN [j \in DOMAIN records |-> EnrichContact(records[j], MapById(fetchMetadata("/fields")))]
    ELSE [j \in DOMAIN records |->
             EnrichDeal(records[j],
                        MapById(fetchMetadata("/dealGroups")),
                        MapById(fetchMetadata("/dealStages")),
                        MapById(fetchMetadata("/users")),
                        MapById(fetchMetadata("/dealCustomFieldMeta")))]

---------------------------------------------------------------------------
(* lib/sync/contacts.js: syncContacts; lib/sync/deals.js: syncDeals *)

\* The metadata endpoints a dataset reads first (deals: all four at once).
MetadataEndpoints(d) ==
    IF d = "contacts"
    THEN <<"/fields">>
    ELSE <<"/dealGroups", "/dealStages", "/users", "/dealCustomFieldMeta">>

SyncIdle ==
    [pc |-> "idle", startedAt |-> 0, startTime |-> 0, total |-> 0, totalPages |-> 0,
     hasMeta |-> FALSE, records |-> <<>>, result |-> <<>>, requests |-> 0, failedAt |-> ""]

\* sync<d>(syncId) is called: it runs up to the await of its metadata.
\* requests is history: the requests the sync itself has sent, those of the
\* page collector apart.
EnterSync(d) ==
    [SyncIdle EXCEPT !.pc = "metadata", !.startedAt = now, !.startTime = now,
                     !.requests = Len(MetadataEndpoints(d))]

Reject_failsBoth(d, error) ==
    [e \in Categories |->
        [sync[e] EXCEPT !.pc = "rejected", !.startedAt = 0, !.failedAt = sync[d].pc,
                        !.result = <<[message |-> <<d, "sync failed", error>>]>>]]
\* catch (error): throw new Error(`<Dataset> sync failed: ${error.message}`);
\* failedAt is history: the step that threw.
Reject(d, error) ==
    [sync EXCEPT ![d].pc = "rejected", ![d].startedAt = 0, ![d].failedAt = sync[d].pc,
                 ![d].result = <<[message |-> <<d, "sync failed", error>>]>>]

MetadataDone_retriesOnce(d) ==
    /\ sync[d].pc = "metadata"
    /\ \/ /\ sync' = [sync EXCEPT ![d].pc = "firstPage", ![d].startedAt = now,
                                   ![d].requests = @ + 1]
          /\ recent' = Started(1)
       \/ /\ sync[d].requests = Len(MetadataEndpoints(d))
          /\ sync' = [sync EXCEPT ![d].startedAt = now,
                                   ![d].requests = @ + Len(MetadataEndpoints(d))]
          /\ recent' = Started(Len(MetadataEndpoints(d)))
       \/ /\ sync[d].requests > Len(MetadataEndpoints(d))
          /\ sync' = Reject(d, ApiError(0))
          /\ UNCHANGED recent
    /\ readResult' = <<>>
    /\ UNCHANGED <<now, storeVars, total, collector, rl, unit, run, ac_sync_logs>>
\* The metadata has arrived (the lookup maps are built) or a request failed.
MetadataDone(d) ==
    /\ sync[d].pc = "metadata"
    /\ \/ /\ sync' = [sync EXCEPT ![d].pc = "firstPage", ![d].startedAt = now,
                                   ![d].requests = @ + 1]
          /\ recent' = Started(1)
       \/ /\ sync' = Reject(d, ApiError(0))
          /\ UNCHANGED recent
    /\ readResult' = <<>>
    /\ UNCHANGED <<now, storeVars, total, collector, rl, unit, run, ac_sync_logs>>

\* The first page has arrived: the page count is computed, then either the
\* remaining pages are collected or the records are enriched and stored.
FirstPageDone(d) ==
    /\ sync[d].pc = "firstPage"
    /\ \/ \E hasMeta \in BOOLEAN :
            LET firstPageResult == fetchFirstPage(d, hasMeta)
                totalPages == CeilDiv(firstPageResult.total, PageLimit)
                next == [sync[d] EXCEPT !.total = firstPageResult.total,
                                        !.totalPages = totalPages,
                                        !.hasMeta = hasMeta,
                                        !.records = firstPageResult.records,
                                        !.startedAt = 0]
            IN IF totalPages > 1
               THEN /\ sync' = [sync EXCEPT ![d] = [next EXCEPT !.pc = "pages"]]
                    /\ EnterFetchAllPages(d, totalPages - 1)
                    /\ UNCHANGED <<store, calls>>
               ELSE /\ sync' = [sync EXCEPT ![d] = [next EXCEPT !.pc = "storing"]]
                    /\ EnterStore(d, Enrich(d, firstPageResult.records), run.syncId)
                    /\ UNCHANGED <<collector, rl, unit>>
       \/ /\ sync' = Reject(d, ApiError(0))
          /\ UNCHANGED <<store, calls, collector, rl, unit>>
    /\ readResult' = <<>>
    /\ UNCHANGED <<now, ac_sync_data, nextId, lastStored, total, recent, run, ac_sync_logs>>

\* fetchAllPages has returned: concatenate, enrich, store.
PagesDone(d) ==
    /\ sync[d].pc = "pages"
    /\ collector[d].pc \in {"returned", "rejected"}
    /\ IF collector[d].pc = "returned"
       THEN LET allRecords == sync[d].records \o collector[d].allRecords
            IN /\ sync' = [sync EXCEPT ![d].pc = "storing", ![d].records = allRecords]
               /\ EnterStore(d, Enrich(d, allRecords), run.syncId)
       ELSE /\ sync' = Reject(d, <<"rejected">>)
            /\ UNCHANGED <<store, calls>>
    /\ readResult' = <<>>
    /\ UNCHANGED <<now, ac_sync_data, nextId, lastStored, limiterVars, run, ac_sync_logs>>

\* store<d>Data has resolved or raised: the sync returns or rethrows.
StoreDone(d) ==
    /\ sync[d].pc = "storing"
    /\ store[d].pc \in {"done", "raised"}
    /\ sync' = IF store[d].pc = "done"
               THEN [sync EXCEPT ![d].pc = "fulfilled",
                                 ![d].result = <<[recordCount |-> Len(store[d].records),
                                                  durationMs |-> now - sync[d].startTime]>>]
               ELSE Reject(d, <<"Database storage failed">>)
    /\ readResult' = <<>>
    /\ UNCHANGED <<now, storeVars, limiterVars, run, ac_sync_logs>>

---------------------------------------------------------------------------
(* pages/api/sync-activecampaign.js: handler; scripts/sync-standalone.js:
   runSync; lib/db/sync-metadata.js *)

\* The two ways a run is started: the HTTP handler and the standalone script.
Entries == {"handler", "script"}

\* authorized is history: whether the request carried the header
\* Authorization: Bearer <CRON_SECRET>.
RunIdle == [pc |-> "idle", entry |-> "", syncId |-> <<>>, syncStartTime |-> 0,
            startedAt |-> 0, summary |-> <<>>, metadata |-> <<>>, response |-> <<>>,
            authorized |-> TRUE]

SyncSettled(d) == sync[d].pc \in {"fulfilled", "rejected"}
\* result.status === 'fulfilled'
Fulfilled(d) == sync[d].pc = "fulfilled"

\* The request arrives, or the script is run.  The handler answers a wrong
\* Authorization header with 401 in production; otherwise both syncs are
\* started, contacts first.
RunStart ==
    /\ run.pc = "idle"
    /\ \E entry \in Entries, production, authorized \in BOOLEAN :
         IF entry = "handler" /\ production /\ ~authorized
         THEN /\ run' = [run EXCEPT !.pc = "responded", !.entry = entry,
                                    !.authorized = authorized,
                                    !.response = <<[status |-> 401]>>]
              /\ UNCHANGED <<sync, recent>>
         ELSE /\ run' = [run EXCEPT !.pc = "syncing", !.entry = entry,
                                    !.authorized = (entry = "script" \/ authorized),
                                    !.syncId = <<"sync-", now>>,
                                    !.syncStartTime = now]
              /\ sync' = [d \in Categories |-> EnterSync(d)]
              /\ recent' = Started(Len(MetadataEndpoints("contacts"))
                                   + Len(MetadataEndpoints("deals")))
    /\ readResult' = <<>>
    /\ UNCHANGED <<now, storeVars, total, collector, rl, unit, ac_sync_logs>>

\* The record handed to storeSyncMetadata
SyncMetadata ==
    [sync_id |-> run.syncId,
     timestamp |-> now,
     total_duration_ms |-> now - run.syncStartTime,
     contacts_success |-> Fulfilled("contacts"),
     contacts_count |-> IF Fulfilled("contacts") THEN sync["contacts"].result[1].recordCount ELSE 0,
     contacts_error |-> IF Fulfilled("contacts") THEN <<>> ELSE sync["contacts"].result[1].message,
     deals_success |-> Fulfilled("deals"),
     deals_count |-> IF Fulfilled("deals") THEN sync["deals"].result[1].recordCount ELSE 0,
     deals_error |-> IF Fulfilled("deals") THEN <<>> ELSE sync["deals"].result[1].message]

\* The row storeSyncMetadata inserts: ${contactsSuccess && dealsSuccess}
LogRow(metadata) ==
    metadata @@ [overall_success |-> metadata.contacts_success /\ metadata.deals_success]

\* The entry of the response / summary for one dataset
Outcome(d) ==
    IF Fulfilled(d)
    THEN [success |-> TRUE,
          recordCount |-> sync[d].result[1].recordCount,
          durationMs |-> sync[d].result[1].durationMs]
    ELSE [success |-> FALSE, error |-> sync[d].result[1].message]

\* Promise.allSettled has settled: the response is built and the INSERT
\* into ac_sync_logs is sent.
RunSettled ==
    /\ run.pc = "syncing"
    /\ \A d \in Categories : SyncSettled(d)
    /\ run' = [run EXCEPT !.pc = "logging", !.startedAt = now,
                          !.summary = <<[d \in Categories |-> Outcome(d)]>>,
                          !.metadata = <<SyncMetadata>>]
    /\ readResult' = <<>>
    /\ UNCHANGED <<now, storeVars, limiterVars, sync, ac_sync_logs>>

OverallSuccess_either(metadata) == metadata.contacts_success \/ metadata.deals_success
\* const overallSuccess = contactsSuccess && dealsSuccess
OverallSuccess(metadata) == metadata.contacts_success /\ metadata.deals_success

\* res.status(overallSuccess ? 200 : 207)
StatusOf(metadata) == IF OverallSuccess(metadata) THEN 200 ELSE 207

\* process.exit(overallSuccess ? 0 : 1)
ExitCodeOf(metadata) == IF OverallSuccess(metadata) THEN 0 ELSE 1

\* What the caller gets: the HTTP response, or the exit code and summary.
ResponseOf(entry, metadata, summary) ==
    IF entry = "handler"
    THEN [status |-> StatusOf(metadata), syncId |-> metadata.sync_id,
          contacts |-> summary["contacts"], deals |-> summary["deals"]]
    ELSE [exitCode |-> ExitCodeOf(metadata), syncId |-> metadata.sync_id,
          contacts |-> summary["contacts"], deals |-> summary["deals"]]

LogDone_appendsTwice ==
    /\ run.pc = "logging"
    /\ \/ ac_sync_logs' = Append(Append(ac_sync_logs, LogRow(run.metadata[1])),
                                 LogRow(run.metadata[1]))
       \/ UNCHANGED ac_sync_logs
    /\ run' = [run EXCEPT !.pc = "responded", !.startedAt = 0,
                          !.response = <<ResponseOf(run.entry, run.metadata[1],
                                                    run.summary[1])>>]
    /\ readResult' = <<>>
    /\ UNCHANGED <<now, storeVars, limiterVars, sync>>
LogDone_failureFails ==
    /\ run.pc = "logging"
    /\ \/ /\ ac_sync_logs' = Append(ac_sync_logs, LogRow(run.metadata[1]))
          /\ run' = [run EXCEPT !.pc = "responded", !.startedAt = 0,
                                !.response = <<ResponseOf(run.entry, run.metadata[1],
                                                          run.summary[1])>>]
       \/ /\ UNCHANGED ac_sync_logs
          /\ run' = [run EXCEPT !.pc = "responded", !.startedAt = 0,
                                !.response = <<[status |-> 500, exitCode |-> 1,
                                                syncId |-> run.syncId,
                                                contacts |-> run.summary[1]["contacts"],
                                                deals |-> run.summary[1]["deals"]]>>]
    /\ readResult' = <<>>
    /\ UNCHANGED <<now, storeVars, limiterVars, sync>>
\* The INSERT has succeeded, or failed and been swallowed: the response.
LogDone ==
    /\ run.pc = "logging"
    /\ \/ ac_sync_logs' = Append(ac_sync_logs, LogRow(run.metadata[1]))
       \/ UNCHANGED ac_sync_logs
    /\ run' = [run EXCEPT !.pc = "responded", !.startedAt = 0,
                          !.response = <<ResponseOf(run.entry, run.metadata[1],
                                                    run.summary[1])>>]
    /\ readResult' = <<>>
    /\ UNCHANGED <<now, storeVars, limiterVars, sync>>

---------------------------------------------------------------------------
(* Time: it passes only while a request or a timer is outstanding; a
   continuation that can run does so before the next tick, and a request
   settles within MaxLatencyMs. *)

Urgent(c) ==
    \/ rl[c].pc = "loop"
    \/ rl[c].pc = "awaitAll" /\ Settled(c)
    \/ rl[c].pc = "sleep" /\ now >= rl[c].wake
    \/ \E k \in DOMAIN unit[c] : unit[c][k].phase = "sleeping" /\ now >= unit[c][k].wake
    \/ sync[c].pc = "pages" /\ collector[c].pc \in {"returned", "rejected"}
    \/ sync[c].pc = "storing" /\ store[c].pc \in {"done", "raised"}
    \/ run.pc = "syncing" /\ \A d \in Categories : SyncSettled(d)

Waiting(c) ==
    \/ Running(c)
    \/ sync[c].pc \in {"metadata", "firstPage"}
    \/ run.pc = "logging"
    \/ rl[c].pc = "sleep"
    \/ \E k \in DOMAIN unit[c] : unit[c][k].phase \in {"calling", "sleeping"}

Late(startedAt) == now + TickMs - startedAt > MaxLatencyMs

InTime(c) ==
    /\ Running(c) => ~Late(store[c].startedAt)
    /\ sync[c].pc \in {"metadata", "firstPage"} => ~Late(sync[c].startedAt)
    /\ run.pc = "logging" => ~Late(run.startedAt)
    /\ \A k \in DOMAIN unit[c] : unit[c][k].phase = "calling" => ~Late(unit[c][k].startedAt)

\* No request, to the API or to the database, is awaiting its response.
NoRequest ==
    /\ run.pc # "logging"
    /\ \A c \in Categories :
         /\ ~Running(c)
         /\ sync[c].pc \notin {"metadata", "firstPage"}
         /\ \A k \in DOMAIN unit[c] : unit[c][k].phase # "calling"

RATE_WINDOW_MS == 1000

Tick ==
    /\ \A c \in Categories : ~Urgent(c) /\ InTime(c)
    /\ \E c \in Categories : Waiting(c)
    /\ now' = now + TickMs
    /\ recent' = SelectSeq(recent, LAMBDA t : t > now' - RATE_WINDOW_MS)
    /\ readResult' = <<>>
    /\ UNCHANGED <<storeVars, total, collector, rl, unit, syncVars>>

---------------------------------------------------------------------------
LimiterIdle ==
    /\ total = [c \in Categories |-> 0]
    /\ collector = [c \in Categories |-> CollectorIdle]
    /\ rl = [c \in Categories |-> RlIdle]
    /\ unit = [c \in Categories |-> <<>>]
    /\ recent = <<>>

SyncAtRest ==
    /\ run = RunIdle
    /\ sync = [d \in Categories |-> SyncIdle]
    /\ ac_sync_logs = <<>>

StoreIdle ==
    /\ ac_sync_data = <<>>
    /\ nextId = 1
    /\ store = [c \in Categories |-> Idle]
    /\ calls = 0
    /\ lastStored = [c \in Categories |-> [valid |-> FALSE, rows |-> {}, records |-> <<>>]]
    /\ readResult = <<>>

InitStore ==
    /\ now = 0
    /\ StoreIdle
    /\ LimiterIdle
    /\ SyncAtRest

NextStore ==
    \/ \E c \in Categories : StoreCall(c)
    \/ \E c \in Categories : StoreDelete(c)
    \/ \E c \in Categories : StoreBatch(c)
    \/ \E c \in Categories : StoreInterrupt(c)
    \/ \E c \in Categories : Load(c)
    \/ now < MaxClockMs /\ Tick

SpecStore == InitStore /\ [][NextStore]_vars

\* The read paths over what the store calls leave in the table: one category
\* is written, both are read.
Written == {"contacts"}

NextRead ==
    \/ \E c \in Written : StoreCall(c)
    \/ \E c \in Written : StoreDelete(c)
    \/ \E c \in Written : StoreBatch(c)
    \/ \E c \in Written : Damage(c)
    \/ \E c \in Categories : Load(c)
    \/ Query
    \/ now < MaxClockMs /\ Tick

SpecRead == InitStore /\ [][NextRead]_vars

\* Two runs store contacts at overlapping times: the statements of the two
\* invocations of storeContactsData interleave freely.
Overlapping == {c \in Invocations : CategoryOf(c) = "contacts"}

InitOverlap ==
    /\ now = 0
    /\ ac_sync_data = <<>>
    /\ nextId = 1
    /\ store = [c \in Invocations |-> Idle]
    /\ calls = 0
    /\ lastStored = [c \in Categories |-> [valid |-> FALSE, rows |-> {}, records |-> <<>>]]
    /\ readResult = <<>>
    /\ LimiterIdle
    /\ SyncAtRest

NextOverlap ==
    \/ \E c \in Overlapping : StoreCallOverlapping(c)
    \/ \E c \in Overlapping : StoreDelete(c)
    \/ \E c \in Overlapping : StoreBatch(c)
    \/ Load("contacts")

SpecOverlap == InitOverlap /\ [][NextOverlap]_vars

InitLimiter ==
    /\ now = 0
    /\ StoreIdle
    /\ LimiterIdle
    /\ SyncAtRest

Callers == {"contacts"}

NextLimiter ==
    \/ \E c \in Callers : FetchAllPagesCall(c)
    \/ \E c \in Callers : StartBatch(c)
    \/ \E c \in Callers : \E k \in DOMAIN unit[c] : UnitSucceed(c, k)
    \/ \E c \in Callers : \E k \in DOMAIN unit[c] : UnitFail(c, k)
    \/ \E c \in Callers : \E k \in DOMAIN unit[c] : UnitRetry(c, k)
    \/ \E c \in Callers : BatchDone(c)
    \/ \E c \in Callers : SleepDone(c)
    \/ \E c \in Callers : ReturnResults(c)
    \/ Tick

SpecLimiter == InitLimiter /\ [][NextLimiter]_vars

\* The same calls under the scheduling the runtime gives: a request that is
\* outstanding settles, a timer that is due fires, a continuation that can
\* run does, and time passes.
Settle(c) == \E k \in DOMAIN unit[c] : UnitSucceed(c, k) \/ UnitFail(c, k)
Wake(c) == \E k \in DOMAIN unit[c] : UnitRetry(c, k)

FairLimiter ==
    /\ WF_vars(Tick)
    /\ \A c \in Callers :
          /\ WF_vars(Settle(c))
          /\ WF_vars(Wake(c))
          /\ WF_vars(StartBatch(c))
          /\ WF_vars(BatchDone(c))
          /\ WF_vars(SleepDone(c))
          /\ WF_vars(ReturnResults(c))

SpecLimiterFair == InitLimiter /\ [][NextLimiter]_vars /\ FairLimiter

\* A sync run, a tick after an earlier one, against an account holding up to
\* MaxTotal records per dataset.
\* Responses arrive within the resolution of the clock: time passes only
\* while the run waits on its timers.
\* What an earlier run left in the table: one chunk per category.
PreviousRecords(d) == Enrich(d, <<IF d = "contacts" THEN Contact(1) ELSE Deal(1)>>)
PreviousId(d) == IF d = "contacts" THEN 1 ELSE 2
PreviousRow(d) ==
    [id |-> PreviousId(d),
     data_type |-> d,
     json_data_compressed |-> gzip(JSONstringify(PreviousRecords(d))),
     record_count |-> Len(PreviousRecords(d)),
     synced_at |-> 0,
     sync_id |-> << <<"sync-", 0>>, 0 >>]

\* The table after an earlier run, made at time 0, that stored both datasets
StoreAfterRun ==
    /\ ac_sync_data = <<PreviousRow("contacts"), PreviousRow("deals")>>
    /\ nextId = 3
    /\ store = [c \in Categories |-> Idle]
    /\ calls = 0
    /\ lastStored = [c \in Categories |->
                        [valid |-> TRUE, rows |-> {PreviousId(c)},
                         records |-> PreviousRecords(c)]]
    /\ readResult = <<>>

InitSync ==
    /\ now = TickMs
    /\ StoreAfterRun
    /\ total \in [Categories -> 0..MaxTotal]
    /\ collector = [c \in Categories |-> CollectorIdle]
    /\ rl = [c \in Categories |-> RlIdle]
    /\ unit = [c \in Categories |-> <<>>]
    /\ recent = <<>>
    /\ SyncAtRest

NextSync ==
    \/ RunStart
    \/ \E d \in Categories : MetadataDone(d)
    \/ \E d \in Categories : FirstPageDone(d)
    \/ \E d \in Categories : StartBatch(d)
    \/ \E d \in Categories : \E k \in DOMAIN unit[d] : UnitSucceed(d, k)
    \/ \E d \in Categories : \E k \in DOMAIN unit[d] : UnitFail(d, k)
    \/ \E d \in Categories : \E k \in DOMAIN unit[d] : UnitRetry(d, k)
    \/ \E d \in Categories : BatchDone(d)
    \/ \E d \in Categories : ReturnResults(d)
    \/ \E d \in Categories : PagesDone(d)
    \/ \E d \in Categories : StoreDelete(d)
    \/ \E d \in Categories : StoreBatch(d)
    \/ \E d \in Categories : StoreDone(d)
    \/ RunSettled
    \/ LogDone
    \/ NoRequest /\ Tick

SpecSync == InitSync /\ [][NextSync]_vars

---------------------------------------------------------------------------
(* Claims on the store (SpecStore) *)

HasRead(c) == readResult # <<>> /\ readResult[1].type = c
Read == readResult[1]

\* C1: in every state during or after a store, at least one complete
\* generation of the category is readable: the chunks of the last generation
\* written in full stay in the table until a newer one is complete.
C1_CompleteGenerationReadable ==
    \A c \in Categories :
        lastStored[c].valid => lastStored[c].rows \subseteq IdsOf(c)

\* C2: when a chunk fails to compress or insert, the store raises, the
\* previous generation is untouched and a following getLatest returns
\* exactly the previous generation's records.
C2_FailedStoreKeepsPrevious ==
    \A c \in Categories :
        (store[c].pc = "raised" /\ store[c].failed = "chunk" /\ lastStored[c].valid)
        => /\ lastStored[c].rows \subseteq IdsOf(c)
           /\ HasRead(c) => /\ Read.status = "ok"
                            /\ SameBag(Read.records, lastStored[c].records)

\* C3: round trip: after a store of a non-empty sequence of losslessly
\* serializable records has resolved, getLatest of the category returns the
\* stored records as a multiset: none lost, none duplicated.
C3_RoundTrip ==
    \A c \in Categories :
        ( /\ store[c].pc = "done"
          /\ store[c].records # <<>>
          /\ \A k \in DOMAIN store[c].records : Lossless(store[c].records[k])
          /\ HasRead(c) )
        => /\ Read.status = "ok"
           /\ SameBag(Read.records, store[c].records)

\* C3 witness: a store of more records than one chunk holds, with a repeated
\* record, has resolved and has been read back.
C3_Witness ==
    \E c \in Categories :
        /\ store[c].pc = "done"
        /\ Len(store[c].records) > BatchSize
        /\ \E a, b \in DOMAIN store[c].records :
               a # b /\ store[c].records[a] = store[c].records[b]
        /\ HasRead(c)
        /\ Read.status = "ok"
        /\ Len(Read.records) = Len(store[c].records)

---------------------------------------------------------------------------
(* Claims on the rate limiter (SpecLimiter) *)

InFlight(c) == {k \in DOMAIN unit[c] : unit[c][k].phase \in {"calling", "sleeping"}}

\* C6: during a run of executeWithRateLimit the number of work units that
\* have been started and have not yet produced their final result is at
\* most the group size, BATCH_SIZE.
C6_InFlightAtMostGroupSize ==
    \A c \in Categories : Cardinality(InFlight(c)) <= BATCH_SIZE

\* C6 witness: a full group is in flight while more units are waiting.
C6_Witness ==
    \E c \in Categories :
        /\ Cardinality(InFlight(c)) = BATCH_SIZE
        /\ \E k \in DOMAIN unit[c] : unit[c][k].phase = "pending"

\* C7: N units are run as the groups 1..G, G+1..2G, ... (as many as
\* needed and no more, each of at most G units, only the last one smaller),
\* and the N results come back with result i that of unit i.
C7_GroupsAndResultOrder ==
    \A c \in Categories :
        rl[c].pc = "returned" =>
            LET N == rl[c].totalCalls
                g == Len(rl[c].batches)
            IN /\ (g - 1) * BATCH_SIZE < N \/ (g = 0 /\ N = 0)
               /\ N <= g * BATCH_SIZE
               /\ \A j \in 1..g :
                     rl[c].batches[j] =
                        {k \in 1..N : (j - 1) * BATCH_SIZE < k /\ k <= j * BATCH_SIZE}
               /\ Len(rl[c].results) = N
               /\ \A k \in 1..N :
                     /\ rl[c].results[k] = unit[c][k].result[1]
                     /\ rl[c].results[k].success => rl[c].results[k].data = fetchPage(c, k)

\* C7 witness: two groups were run, and in the first a unit that resolved
\* after a backoff sleep precedes one that resolved at its first attempt.
C7_Witness ==
    \E c \in Categories :
        /\ rl[c].pc = "returned"
        /\ Len(rl[c].batches) = 2
        /\ \E i, j \in rl[c].batches[1] :
              /\ i < j
              /\ unit[c][i].slept # <<>>
              /\ unit[c][j].slept = <<>>

Failure(u) == u.phase = "resolved" /\ ~u.result[1].success
Success(u) == u.phase = "resolved" /\ u.result[1].success

\* C8: a unit that fails on every attempt is invoked exactly 4 times; the
\* sleeps between the attempts are 1000, 2000 and 4000 ms in that order, and
\* no sleep follows the last failed attempt.
C8_FourAttemptsDoublingDelays ==
    \A c \in Categories : \A k \in DOMAIN unit[c] :
        Failure(unit[c][k]) =>
            /\ unit[c][k].calls = 4
            /\ unit[c][k].succeeded = 0
            /\ unit[c][k].slept = <<1000, 2000, 4000>>
            /\ unit[c][k].wake = 0

C8_Witness ==
    \E c \in Categories : \E k \in DOMAIN unit[c] : Failure(unit[c][k])

\* C9: once an attempt of a unit succeeds the unit resolves at once to
\* Success with the value of that attempt; it is not invoked again and does
\* not sleep again.
C9_SuccessIsFinal ==
    /\ [](\A c \in Categories : \A k \in DOMAIN unit[c] :
            unit[c][k].succeeded > 0 =>
                /\ Success(unit[c][k])
                /\ unit[c][k].result[1].data = fetchPage(c, k)
                /\ unit[c][k].succeeded = 1)
    /\ [][\A c \in Categories : \A k \in DOMAIN unit[c] :
            Success(unit[c][k]) => unit'[c][k] = unit[c][k]]_vars

\* C9 witness: a unit succeeded at its third attempt.
C9_Witness ==
    \E c \in Categories : \E k \in DOMAIN unit[c] :
        /\ Success(unit[c][k])
        /\ unit[c][k].attempt = 2
        /\ unit[c][k].calls = 3

IsExecutionResult(r) ==
    \/ DOMAIN r = {"success", "data"} /\ r.success = TRUE
    \/ DOMAIN r = {"success", "error", "callIndex"} /\ r.success = FALSE

\* C10: executeWithRetry never raises: a unit ends with exactly one
\* ExecutionResult, Success or Failure, whatever attempts fail, and neither
\* executeWithRateLimit nor fetchAllPages rejects because a unit failed.
C10_FailuresAreData ==
    \A c \in Categories :
        /\ rl[c].pc # "rejected"
        /\ collector[c].pc # "rejected"
        /\ \A k \in DOMAIN unit[c] :
              /\ unit[c][k].phase # "rejected"
              /\ unit[c][k].phase = "resolved" =>
                    Len(unit[c][k].result) = 1 /\ IsExecutionResult(unit[c][k].result[1])
              /\ unit[c][k].phase # "resolved" => unit[c][k].result = <<>>
        /\ rl[c].pc = "returned" =>
              \A k \in DOMAIN unit[c] : unit[c][k].phase = "resolved"

\* C10 witness: the scheduler returned although a unit failed all attempts.
C10_Witness ==
    \E c \in Categories :
        /\ rl[c].pc = "returned"
        /\ collector[c].pc = "returned"
        /\ \E k \in DOMAIN rl[c].results : ~rl[c].results[k].success

\* C11: executeWithRateLimit never aborts early: when it returns, every group
\* has been run, every one of the N units has been executed, also those of
\* the groups after a group that had a Failure, and the returned sequence
\* holds one result, Success or Failure, per unit.
C11_NoEarlyAbort ==
    \A c \in Categories :
        rl[c].pc = "returned" =>
            /\ Len(rl[c].batches) = RlTotalBatches(rl[c].totalCalls)
            /\ Len(rl[c].results) = rl[c].totalCalls
            /\ \A k \in 1..rl[c].totalCalls :
                  /\ unit[c][k].calls >= 1
                  /\ IsExecutionResult(rl[c].results[k])

\* C11 witness: a unit of the first group ended in Failure, and the second
\* group was run and its results returned.
C11_Witness ==
    \E c \in Categories :
        /\ rl[c].pc = "returned"
        /\ Len(rl[c].batches) = 2
        /\ \E k \in rl[c].batches[1] : Failure(unit[c][k])
        /\ \A k \in rl[c].batches[2] : unit[c][k].calls >= 1

---------------------------------------------------------------------------
(* Claims on a sync run (SpecSync) *)

\* The pages asked of the page collector so far
PagesRequested(d) ==
    {unit[d][k].page : k \in {j \in DOMAIN unit[d] : unit[d][j].calls > 0}}

NoFailedRequest(d) == \A k \in DOMAIN unit[d] : ~HasFailed(unit[d][k])

\* C4: with the total T reported by the API, page size P and no failing
\* request, once a sync has collected its records the page collector has been
\* asked for exactly the pages 2..ceil(T/P), and the collected sequence holds
\* every upstream record exactly once.
C4_EveryRecordOnce ==
    \A d \in Categories :
        (sync[d].pc \in {"storing", "fulfilled"} /\ sync[d].hasMeta /\ NoFailedRequest(d))
        => /\ PagesRequested(d) = 2..CeilDiv(total[d], PageLimit)
           /\ Len(sync[d].records) = total[d]
           /\ \A n \in 1..total[d] :
                 Cardinality({k \in DOMAIN sync[d].records : sync[d].records[k].id = n}) = 1

RATE_LIMIT_PER_SECOND == 10

\* C5: the API requests started within any window of 1000 ms, retries, batch
\* starts and the requests of both syncs counted together, number at most 10.
C5_AtMostTenPerSecond == Len(recent) <= RATE_LIMIT_PER_SECOND

\* The units of the collector that ended in Success, in page order
SucceededUnits(d) ==
    SelectSeq([k \in DOMAIN unit[d] |-> k], LAMBDA k : Success(unit[d][k]))

\* The records of the pages that were fetched successfully, in page order
RecordsOfSucceededPages(d) ==
    Flatten([j \in DOMAIN SucceededUnits(d) |->
                fetchPage(d, unit[d][SucceededUnits(d)[j]].page)])

\* C12: a page that exhausts its attempts does not make fetchAllPages raise:
\* it returns the records of exactly the successful pages, in order, and the
\* dataset sync goes on to store the first page followed by those records;
\* it is fulfilled unless the store itself raises.
C12_FailedPageIsOmitted ==
    \A d \in Categories :
        /\ collector[d].pc # "rejected"
        /\ collector[d].pc = "returned" =>
              collector[d].allRecords = RecordsOfSucceededPages(d)
        /\ (sync[d].pc \in {"storing", "fulfilled", "rejected"} /\ unit[d] # <<>>) =>
              /\ sync[d].records = fetchPage(d, 1) \o RecordsOfSucceededPages(d)
              /\ store[d].records = Enrich(d, sync[d].records)
              /\ sync[d].pc = "rejected" => store[d].pc = "raised"
        /\ (sync[d].pc = "fulfilled" /\ unit[d] # <<>>) =>
              /\ lastStored[d].records = Enrich(d, sync[d].records)
              /\ sync[d].result[1].recordCount = Len(sync[d].records)

\* C12 witness: a sync is fulfilled although one of its pages failed all
\* attempts; the first page and another page's records are stored.
C12_Witness ==
    \E d \in Categories :
        /\ sync[d].pc = "fulfilled"
        /\ \E k \in DOMAIN unit[d] : Failure(unit[d][k])
        /\ \E k \in DOMAIN unit[d] : Success(unit[d][k])
        /\ lastStored[d].valid
        /\ Len(lastStored[d].records) > PageLimit

Responded == run.pc = "responded" /\ "contacts" \in DOMAIN run.response[1]

\* The category a dataset sync stores into and the other one
Other(d) == CHOOSE e \in Categories : e # d

\* A dataset sync's own error: a failed metadata or first-page request, or a
\* store that raised.
RequestFailed(d) ==
    /\ sync[d].pc = "rejected"
    /\ sync[d].result[1].message = <<d, "sync failed", ApiError(0)>>
StoreFailed(d) ==
    /\ sync[d].pc = "rejected"
    /\ sync[d].result[1].message = <<d, "sync failed", <<"Database storage failed">>>>

\* C13: the two dataset syncs of a run are independent.  A sync is rejected
\* only for an error of its own; the run answers only when both have
\* settled; and whatever happened to the other one, a sync that met no
\* error of its own is fulfilled, has its generation in the table and is
\* reported as successful with its record count.
C13_DatasetsIndependent ==
    \A d \in Categories :
        /\ sync[d].pc = "rejected" =>
              \/ RequestFailed(d) /\ store[d].pc = "idle"
              \/ StoreFailed(d) /\ store[d].pc = "raised"
        /\ Fulfilled(d) =>
              /\ store[d].pc = "done"
              /\ lastStored[d].valid
              /\ lastStored[d].rows \subseteq IdsOf(d)
              /\ lastStored[d].records = Enrich(d, sync[d].records)
        /\ Responded =>
              /\ SyncSettled(d)
              /\ run.response[1][d].success = Fulfilled(d)
              /\ Fulfilled(d) =>
                    run.response[1][d].recordCount = Len(lastStored[d].records)

\* C13 witness: a run has answered with one dataset failed and the other
\* one, of more than one page, stored and reported as successful.
C13_Witness ==
    \E d \in Categories :
        /\ Responded
        /\ sync[d].pc = "rejected"
        /\ Fulfilled(Other(d))
        /\ run.response[1][Other(d)].success
        /\ run.response[1][Other(d)].recordCount > PageLimit
        /\ ~run.response[1][d].success

BothFulfilled == \A d \in Categories : Fulfilled(d)

\* C14: the overall status of a run is success exactly when both dataset
\* syncs were fulfilled: the handler answers 200 then and 207 otherwise, the
\* script exits 0 then and 1 otherwise, and the overall_success of the log
\* row is the conjunction of its contacts_success and deals_success, which
\* are the two outcomes.
C14_OverallStatus ==
    /\ Responded =>
          /\ run.entry = "handler" =>
                run.response[1].status = IF BothFulfilled THEN 200 ELSE 207
          /\ run.entry = "script" =>
                run.response[1].exitCode = IF BothFulfilled THEN 0 ELSE 1
    /\ \A j \in DOMAIN ac_sync_logs :
          /\ ac_sync_logs[j].contacts_success = Fulfilled("contacts")
          /\ ac_sync_logs[j].deals_success = Fulfilled("deals")
          /\ ac_sync_logs[j].overall_success =
                (ac_sync_logs[j].contacts_success /\ ac_sync_logs[j].deals_success)

\* C14 witness: the handler has answered 207 for a run in which exactly one
\* dataset failed, and the row is in the log.
C14_Witness ==
    /\ Responded
    /\ run.entry = "handler"
    /\ run.response[1].status = 207
    /\ \E d \in Categories : Fulfilled(d) /\ ~Fulfilled(Other(d))
    /\ Len(ac_sync_logs) = 1
    /\ ~ac_sync_logs[1].overall_success

\* C15: a failure of the run-log write does not fail the run.  Whether or
\* not the row was written, the answer reports each dataset's own outcome
\* and the overall status that follows from them, and no step taken while
\* the log is being written changes the stored chunks.
C15_LogFailureAbsorbed ==
    /\ [](Responded =>
            /\ \A d \in Categories : run.response[1][d] = Outcome(d)
            /\ run.entry = "handler" =>
                  run.response[1].status = IF BothFulfilled THEN 200 ELSE 207
            /\ run.entry = "script" =>
                  run.response[1].exitCode = IF BothFulfilled THEN 0 ELSE 1)
    /\ [][run.pc = "logging" =>
            /\ ac_sync_data' = ac_sync_data
            /\ sync' = sync
            /\ run'.pc \in {"logging", "responded"}]_vars

\* C15 witness: the run has answered 200 with both datasets stored, and the
\* log holds no row: its write failed.
C15_Witness ==
    /\ Responded
    /\ run.entry = "handler"
    /\ run.response[1].status = 200
    /\ ac_sync_logs = <<>>
    /\ \A d \in Categories : Fulfilled(d) /\ store[d].rows # {}

\* C16: when a metadata request or the first-page request of a dataset
\* fails, the sync raises "<dataset> sync failed: <the API error>" at once:
\* the failed step is not retried, no page is requested of the collector,
\* the store is not called, and the chunks of the category are those that
\* were in the table before the run.
C16_EarlyFailureLeavesStoreAlone ==
    \A d \in Categories :
        (sync[d].pc = "rejected" /\ sync[d].failedAt \in {"metadata", "firstPage"}) =>
            /\ sync[d].result[1].message = <<d, "sync failed", ApiError(0)>>
            /\ sync[d].requests =
                  Len(MetadataEndpoints(d)) + (IF sync[d].failedAt = "firstPage" THEN 1 ELSE 0)
            /\ unit[d] = <<>>
            /\ collector[d] = CollectorIdle
            /\ rl[d] = RlIdle
            /\ store[d] = Idle
            /\ RowsOf(d) = <<PreviousRow(d)>>

\* C16 witness: the first-page request of one dataset failed while the other
\* dataset went on and replaced its chunks.
C16_Witness ==
    \E d \in Categories :
        /\ sync[d].pc = "rejected"
        /\ sync[d].failedAt = "firstPage"
        /\ Fulfilled(Other(d))
        /\ PreviousId(Other(d)) \notin IdsOf(Other(d))
        /\ PreviousId(d) \in IdsOf(d)

\* ---------------------------------------------------------------------------
\* Store: generations, empty stores and chunking
\* ---------------------------------------------------------------------------

\* what getLatest yields for records that went through JSON.stringify/parse
Serialized(records) == JSONparse(JSONstringify(records))

\* C17: after two consecutive successful stores of one category under
\* different generation ids, no chunk of the first generation is left in the
\* table, every chunk of the category carries the second generation id, and
\* getLatest returns exactly the second generation's records.
C17_SecondGenerationReplacesFirst ==
    \A c \in Categories :
        (store[c].pc = "done" /\ store[c].prior # {}) =>
            /\ IdsOf(c) \cap store[c].prior = {}
            /\ IdsOf(c) = store[c].rows
            /\ \A k \in DOMAIN RowsOf(c) : RowsOf(c)[k].sync_id[1] = store[c].syncId
            /\ HasRead(c) => /\ Read.status = "ok"
                             /\ SameBag(Read.records, Serialized(store[c].records))

\* C17 witness: a second non-empty generation was stored over a complete
\* first one of the same category and has been read back.
C17_Witness ==
    \E c \in Categories :
        /\ store[c].pc = "done"
        /\ store[c].prior # {}
        /\ store[c].syncId > 1
        /\ store[c].rows # {}
        /\ HasRead(c)
        /\ Read.status = "ok"
        /\ Read.records # <<>>

\* C18: a store of the empty sequence writes no chunk and cannot fail at a
\* chunk: once its DELETE has completed it has resolved, the category has no
\* row, and getLatest returns the empty sequence, whatever was stored before.
C18_EmptyStore ==
    \A c \in Categories :
        (store[c].pc # "idle" /\ store[c].records = <<>>) =>
            /\ store[c].pc \in {"delete", "done", "raised", "interrupted"}
            /\ store[c].pc = "raised" => store[c].failed = "delete"
            /\ store[c].rows = {}
            /\ store[c].pc = "done" =>
                  /\ RowsOf(c) = <<>>
                  /\ lastStored[c] = [valid |-> TRUE, rows |-> {}, records |-> <<>>]
                  /\ HasRead(c) => Read = [type |-> c, status |-> "ok", records |-> <<>>]

\* C18 witness: an empty store over a complete non-empty generation of the
\* same category has resolved and has been read back.
C18_Witness ==
    \E c \in Categories :
        /\ store[c].pc = "done"
        /\ store[c].records = <<>>
        /\ store[c].prior # {}
        /\ HasRead(c)
        /\ Read.records = <<>>

\* ---------------------------------------------------------------------------
\* Limiter: no pages
\* ---------------------------------------------------------------------------

\* C19: fetchAllPages called with totalPages = 0 builds no factory, starts no
\* group and sends no request, and it returns the empty sequence.
C19_NoPagesNoFetch ==
    \A c \in Callers :
        (collector[c].pc # "idle" /\ collector[c].totalPages = 0) =>
            /\ unit[c] = <<>>
            /\ rl[c].totalCalls = 0
            /\ rl[c].batches = <<>>
            /\ recent = <<>>
            /\ collector[c].pc \in {"running", "returned"}
            /\ collector[c].pc = "returned" =>
                  /\ rl[c].pc = "returned"
                  /\ rl[c].results = <<>>
                  /\ collector[c].allRecords = <<>>

\* C19 witness: a call with totalPages = 0 has returned.
C19_Witness ==
    \E c \in Callers :
        /\ collector[c].pc = "returned"
        /\ collector[c].totalPages = 0
        /\ collector[c].allRecords = <<>>

RECURSIVE Sum(_)
Sum(ns) == IF ns = <<>> THEN 0 ELSE Head(ns) + Sum(Tail(ns))

\* the records a chunk row holds, as getLatest decodes them
ChunkRecords(row) == JSONparse(gunzip(row.json_data_compressed))

\* C20: a resolved store of N records with chunk size C has written exactly
\* ceil(N / C) chunks; chunk i holds the consecutive records
\* [i*C, min((i+1)*C, N)), every chunk but possibly the last has C records,
\* the chunk sizes sum to N, and the (generation id, sequence index) tags are
\* pairwise different within the category.
C20_Chunking ==
    \A c \in Categories :
        store[c].pc = "done" =>
            LET records == store[c].records
                N == Len(records)
                C == BatchSize
                rows == RowsOf(c)
            IN /\ Len(rows) = CeilDiv(N, C)
               /\ Cardinality(store[c].rows) = CeilDiv(N, C)
               /\ \A k \in DOMAIN rows :
                     LET i == k - 1 IN
                     /\ rows[k].sync_id = <<store[c].syncId, i>>
                     /\ ChunkRecords(rows[k]) =
                           Serialized(SubSeq(records, i * C + 1, Min((i + 1) * C, N)))
                     /\ rows[k].record_count = Len(ChunkRecords(rows[k]))
                     /\ k < Len(rows) => rows[k].record_count = C
                     /\ rows[k].record_count \in 1..C
               /\ Sum([k \in DOMAIN rows |-> rows[k].record_count]) = N
               /\ \A a, b \in DOMAIN rows : a # b => rows[a].sync_id # rows[b].sync_id

\* C20 witness: a resolved store whose last chunk is shorter than the others.
C20_Witness ==
    \E c \in Categories :
        /\ store[c].pc = "done"
        /\ Len(store[c].records) > BatchSize
        /\ Len(store[c].records) % BatchSize # 0
        /\ Len(RowsOf(c)) >= 2
        /\ RowsOf(c)[Len(RowsOf(c))].record_count < BatchSize

\* ---------------------------------------------------------------------------
\* Read paths: getLatest* and the query-data handler
\* ---------------------------------------------------------------------------

\* the last step was a GET of /api/query-data for category c
HasQuery(c) ==
    /\ readResult # <<>>
    /\ readResult[1].type = QueryUrl(c)
    /\ readResult[1].status # 405
Response == readResult[1]

\* C21 as stated: when the category has no chunk, a read returns the empty
\* sequence and reports no error, through getLatest* and through the query
\* endpoint alike.
C21_EmptyReadIsNoError ==
    \A c \in Categories :
        RowsOf(c) = <<>> =>
            /\ HasRead(c) => Read = [type |-> c, status |-> "ok", records |-> <<>>]
            /\ HasQuery(c) => /\ Response.status = 200
                              /\ Response.error = ""
                              /\ Response.records = <<>>

\* C21 amended: when the category has no chunk, getLatest* returns the empty
\* sequence and does not raise; the query endpoint returns no record and
\* answers 404 "No data found", not a server failure.
C21_EmptyCategory ==
    \A c \in Categories :
        RowsOf(c) = <<>> =>
            /\ HasRead(c) => Read = [type |-> c, status |-> "ok", records |-> <<>>]
            /\ HasQuery(c) => /\ Response.status = 404
                              /\ Response.error = "No data found"
                              /\ Response.records = <<>>
                              /\ Response.data = <<>>

\* C21 witness: the query endpoint has answered for a category that a store
\* of the empty sequence left without chunks.
C21_Witness ==
    \E c \in Written :
        /\ store[c].pc = "done"
        /\ store[c].prior # {}
        /\ RowsOf(c) = <<>>
        /\ HasQuery(c)
        /\ Response.status = 404

\* the rows among rows whose payload does not decode, and the records of the others
Undecodable(rows) == {k \in DOMAIN rows : ~DecodeBatch(rows[k]).ok}
RecordsOfDecodable(rows) ==
    LET good == SelectSeq(rows, LAMBDA row : DecodeBatch(row).ok)
    IN Flatten([k \in DOMAIN good |-> DecodeBatch(good[k]).batch])

\* C22: when one chunk of the generation a read selects fails to decompress
\* or parse, the read does not fail: it skips that chunk and returns the
\* records of all the other chunks, through getLatest* and through the query
\* endpoint alike.
C22_DamagedChunkIsSkipped ==
    \A c \in Categories :
        /\ (HasRead(c) /\ Cardinality(Undecodable(RowsOf(c))) = 1) =>
              /\ Read.status = "ok"
              /\ SameBag(Read.records, RecordsOfDecodable(RowsOf(c)))
        /\ (HasQuery(c) /\ RowsOf(c) # <<>>
               /\ Cardinality(Undecodable(LatestBatches(BatchInfo(c)))) = 1) =>
              /\ Response.status = 200
              /\ Response.records = RecordsOfDecodable(LatestBatches(BatchInfo(c)))

\* the chunks of the most recent complete generation of c that the table holds
Generation(c) ==
    IF lastStored[c].valid /\ lastStored[c].rows \subseteq IdsOf(c)
    THEN lastStored[c].rows ELSE {}
\* the chunks the query endpoint selects
SelectedIds(c) ==
    LET latest == LatestBatches(BatchInfo(c)) IN {latest[k].id : k \in DOMAIN latest}

\* C23: a read returns the records of all chunks of the most recently written
\* generation and of no other chunk: the chunks one store call wrote share
\* the write timestamp the reader selects by, and chunks of older or orphaned
\* generations in the table are not included.
C23_LatestGenerationOnly ==
    \A c \in Categories :
        ~Running(c) =>
            /\ \A a, b \in DOMAIN RowsOf(c) :
                  (RowsOf(c)[a].id \in Generation(c) /\ RowsOf(c)[b].id \in Generation(c))
                      => RowsOf(c)[a].synced_at = RowsOf(c)[b].synced_at
            /\ (HasQuery(c) /\ RowsOf(c) # <<>>) => SelectedIds(c) = Generation(c)
            /\ (HasRead(c) /\ Read.status = "ok") => IdsOf(c) = Generation(c)

\* ---------------------------------------------------------------------------
\* Enrichment
\* ---------------------------------------------------------------------------

\* a dataset whose records have been enriched and handed to the store
Enriched(d) == sync[d].pc \in {"storing", "fulfilled"}
\* the keys enrichment may add
AddedKeys(d) ==
    IF d = "contacts" THEN {"customFields"}
    ELSE {"pipelineData", "stageData", "ownerData", "customFields"}
\* the record of dataset d with the given id, as the API serves it
Served(d, id) == IF d = "contacts" THEN Contact(id) ELSE Deal(id)

\* C24: enrichment leaves its input alone: after it the raw records are still
\* the records the API served, in the same list, and each enriched record has
\* every field of its raw record with the same value and, beyond those, only
\* relation / customFields keys.
C24_EnrichmentKeepsInput ==
    \A d \in Categories :
        Enriched(d) =>
            /\ Len(store[d].records) = Len(sync[d].records)
            /\ \A j \in DOMAIN sync[d].records :
                  LET raw == sync[d].records[j]
                      enriched == store[d].records[j]
                  IN /\ raw = Served(d, raw.id)
                     /\ DOMAIN raw \subseteq DOMAIN enriched
                     /\ \A key \in DOMAIN raw : enriched[key] = raw[key]
                     /\ (DOMAIN enriched \ DOMAIN raw) \subseteq AddedKeys(d)

\* C24 witness: both datasets are enriched; one record got new keys and
\* another one came out with exactly its raw fields.
C24_Witness ==
    /\ \A d \in Categories : Enriched(d)
    /\ \E d \in Categories :
          \E j, k \in DOMAIN store[d].records :
              /\ DOMAIN store[d].records[j] # DOMAIN sync[d].records[j]
              /\ store[d].records[k] = sync[d].records[k]

\* the relations of a deal: foreign key, sub-object key, reference collection
\* and the fields of the projection
Relations ==
    { [key |-> "group", data |-> "pipelineData", endpoint |-> "/dealGroups",
       fields |-> {"id", "title", "currency"}],
      [key |-> "stage", data |-> "stageData", endpoint |-> "/dealStages",
       fields |-> {"id", "title", "order", "dealOrder", "group"}],
      [key |-> "owner", data |-> "ownerData", endpoint |-> "/users",
       fields |-> {"id", "username", "firstName", "lastName", "email"}] }
\* the entities of a reference collection with the given id
Referenced(endpoint, id) ==
    {Metadata(endpoint)[m] : m \in {n \in DOMAIN Metadata(endpoint) : Metadata(endpoint)[n].id = id}}
HasForeignKey(raw, key) == key \in DOMAIN raw /\ raw[key] # ""

\* C25: an enriched deal carries pipelineData / stageData / ownerData exactly
\* when the deal has the foreign key and the reference collection has an
\* entity with that id; otherwise the key is absent; when present the
\* sub-object has exactly the projection fields, with the entity's values.
C25_RelationSubObjects ==
    Enriched("deals") =>
        \A j \in DOMAIN store["deals"].records : \A r \in Relations :
            LET raw == sync["deals"].records[j]
                enriched == store["deals"].records[j]
                found == IF HasForeignKey(raw, r.key)
                         THEN Referenced(r.endpoint, raw[r.key]) ELSE {}
            IN /\ r.data \in DOMAIN enriched <=> found # {}
               /\ r.data \in DOMAIN enriched =>
                     /\ DOMAIN enriched[r.data] = r.fields
                     /\ \E entity \in found :
                           \A f \in r.fields : enriched[r.data][f] = entity[f]

\* C25 witness: an enriched deal whose owner resolves, whose pipeline id is
\* not in the map and whose stage key is empty.
C25_Witness ==
    /\ Enriched("deals")
    /\ \E j \in DOMAIN store["deals"].records :
          LET raw == sync["deals"].records[j]
              enriched == store["deals"].records[j]
          IN /\ "ownerData" \in DOMAIN enriched
             /\ HasForeignKey(raw, "group") /\ "pipelineData" \notin DOMAIN enriched
             /\ ~HasForeignKey(raw, "stage") /\ "stageData" \notin DOMAIN enriched

\* per dataset: where a record keeps its field values, how a field value names
\* its field and its value, and where the field metadata and its tag are
FieldShape(d) ==
    IF d = "contacts"
    THEN [list |-> "fieldValues", id |-> "field", value |-> "value",
          endpoint |-> "/fields", tag |-> "perstag"]
    ELSE [list |-> "dealCustomFieldData", id |-> "customFieldId", value |-> "fieldValue",
          endpoint |-> "/dealCustomFieldMeta", tag |-> "fieldLabel"]

\* C26: for a record with a field-value list, customFields has one entry for
\* each field value whose field id is in the field metadata, under the
\* field's tag or under field_<id> when the tag is empty, and no entry for a
\* field value whose field id is not in the metadata.
C26_CustomFieldsMap ==
    \A d \in Categories :
        Enriched(d) =>
            \A j \in DOMAIN store[d].records :
                LET sh == FieldShape(d)
                    raw == sync[d].records[j]
                    enriched == store[d].records[j]
                IN sh.list \in DOMAIN raw =>
                     LET values == raw[sh.list]
                         known == {k \in DOMAIN values :
                                      Referenced(sh.endpoint, values[k][sh.id]) # {}}
                         KeyOf(k) ==
                             LET meta == CHOOSE m \in Referenced(sh.endpoint, values[k][sh.id]) : TRUE
                             IN IF meta[sh.tag] # "" THEN meta[sh.tag]
                                ELSE "field_" \o values[k][sh.id]
                     IN /\ "customFields" \in DOMAIN enriched
                        /\ DOMAIN enriched.customFields = {KeyOf(k) : k \in known}
                        /\ Cardinality(DOMAIN enriched.customFields) = Cardinality(known)
                        /\ \A k \in known :
                              /\ enriched.customFields[KeyOf(k)].value = values[k][sh.value]
                              /\ enriched.customFields[KeyOf(k)].fieldId = values[k][sh.id]
                        /\ \A k \in DOMAIN values \ known :
                              \A key \in DOMAIN enriched.customFields :
                                  enriched.customFields[key].fieldId # values[k][sh.id]

\* C26 witness: enriched contacts with an entry under a tag, an entry under a
\* synthetic key, and a field value that was dropped.
C26_Witness ==
    /\ Enriched("contacts")
    /\ \E j, k \in {n \in DOMAIN store["contacts"].records :
                        "customFields" \in DOMAIN store["contacts"].records[n]} :
          /\ "PHONE" \in DOMAIN store["contacts"].records[j].customFields
          /\ Len(sync["contacts"].records[j].fieldValues) >
                Cardinality(DOMAIN store["contacts"].records[j].customFields)
          /\ "field_2" \in DOMAIN store["contacts"].records[k].customFields

\* ---------------------------------------------------------------------------
\* The sync endpoint: authorization
\* ---------------------------------------------------------------------------

\* C27: a request to the sync endpoint without the header
\* Authorization: Bearer <CRON_SECRET> is answered 401 and starts no sync: no
\* API request is sent, no chunk is written or deleted and no log row is
\* appended.
C27_UnauthorizedStartsNothing ==
    (run.pc # "idle" /\ run.entry = "handler" /\ ~run.authorized) =>
        /\ run.pc = "responded"
        /\ run.response = <<[status |-> 401]>>
        /\ sync = [d \in Categories |-> SyncIdle]
        /\ recent = <<>>
        /\ \A d \in Categories : RowsOf(d) = <<PreviousRow(d)>>
        /\ ac_sync_logs = <<>>

\* ---------------------------------------------------------------------------
\* Stores of the two categories side by side
\* ---------------------------------------------------------------------------

\* C28: the stores of the two syncs never touch each other's category: a
\* step that is not a step of the store call of category d (its DELETE or
\* one of its INSERTs) leaves every row of d as it is, whatever the
\* interleaving of the two calls.
C28_CategoriesDisjoint ==
    [][\A d \in Categories : store'[d] = store[d] => RowsOf(d)' = RowsOf(d)]_vars

\* C28 witness: both store calls are between two of their inserts at the same
\* time.
C28_Witness ==
    \A d \in Categories :
        /\ sync[d].pc = "storing"
        /\ store[d].pc = "batch"
        /\ store[d].rows # {}

\* ---------------------------------------------------------------------------
\* Limiter: pacing and the barrier between groups
\* ---------------------------------------------------------------------------

\* the start times of the groups started so far, in order
GroupStarts(c) ==
    [k \in DOMAIN rl[c].groups |-> rl[c].groups[k].startedAt]
        \o (IF rl[c].pc = "awaitAll" THEN <<rl[c].batchStartTime>> ELSE <<>>)

\* C29: each group starts at least 1000 ms after the previous group started:
\* after a group that took d ms the loop sleeps max(0, 1000 - d) ms when more
\* groups remain, and it does not sleep after the last group.
C29_GroupPacing ==
    \A c \in Callers :
        /\ \A k \in DOMAIN GroupStarts(c) :
              k > 1 => GroupStarts(c)[k] >= GroupStarts(c)[k - 1] + 1000
        /\ \A k \in DOMAIN rl[c].groups :
              LET d == rl[c].groups[k].duration IN
              rl[c].groups[k].slept =
                  IF k < RlTotalBatches(rl[c].totalCalls)
                  THEN (IF d < 1000 THEN 1000 - d ELSE 0)
                  ELSE 0
        /\ rl[c].pc = "sleep" =>
              rl[c].wake = rl[c].batchStartTime + 1000

\* C29 witness: a call of two groups has returned; it slept after the first
\* group, which took less than a second, and not after the last one, which
\* took less than a second too.
C29_Witness ==
    \E c \in Callers :
        /\ rl[c].pc = "returned"
        /\ Len(rl[c].groups) = 2
        /\ rl[c].groups[1].duration < 1000 /\ rl[c].groups[1].slept > 0
        /\ rl[c].groups[2].duration < 1000 /\ rl[c].groups[2].slept = 0

\* the group a unit belongs to, counted from 0
GroupOf(k) == (k - 1) \div 10
\* the unit has produced its final result
Final(u) == u.phase \in {"resolved", "rejected"}

\* C30: groups run strictly one after the other: while any unit of a group
\* has not produced its final result (it is calling, or asleep between two
\* attempts), no unit of a later group has made its first attempt.
C30_GroupBarrier ==
    \A c \in Callers :
        \A i, j \in DOMAIN unit[c] :
            (GroupOf(i) < GroupOf(j) /\ unit[c][j].calls >= 1) => Final(unit[c][i])

\* C30 witness: the second group has started after a unit of the first group
\* went through a failed attempt and a backoff sleep.
C30_Witness ==
    \E c \in Callers :
        \E i, j \in DOMAIN unit[c] :
            /\ GroupOf(i) = 0 /\ GroupOf(j) = 1
            /\ unit[c][i].calls >= 2
            /\ unit[c][i].slept # <<>>
            /\ unit[c][j].calls >= 1

---------------------------------------------------------------------------
(* Limiter: what a Failure carries *)

\* C31: when every attempt of a unit fails, the Failure that executeWithRetry
\* returns carries the message of the error of the last attempt (the fourth
\* invocation) and the index of the unit in the whole list of factories,
\* both in the unit's own result and in the results the scheduler collects.
C31_FailureCarriesLastErrorAndIndex ==
    \A c \in Callers :
        /\ \A k \in DOMAIN unit[c] :
              Failure(unit[c][k]) =>
                  /\ unit[c][k].result[1].error = ApiError(unit[c][k].calls - 1)
                  /\ unit[c][k].result[1].error = ApiError(MAX_RETRIES)
                  /\ unit[c][k].result[1].callIndex = k - 1
        /\ \A k \in DOMAIN rl[c].results :
              ~rl[c].results[k].success =>
                  /\ rl[c].results[k].error = ApiError(MAX_RETRIES)
                  /\ rl[c].results[k].callIndex = k - 1

\* C31 witness: a unit of the second group has failed for good and its
\* Failure is among the collected results: its index in the list (10) is
\* not its position in its group (0).
C31_Witness ==
    \E c \in Callers :
        \E k \in DOMAIN rl[c].results :
            /\ GroupOf(k) = 1
            /\ ~rl[c].results[k].success
            /\ Failure(unit[c][k])
            /\ unit[c][k].calls = 4

---------------------------------------------------------------------------
(* Sync: the first page and the page count *)

\* the first page of dataset d has arrived
AfterFirstPage(d) ==
    \/ sync[d].pc \in {"pages", "storing", "fulfilled"}
    \/ sync[d].pc = "rejected" /\ sync[d].failedAt \in {"pages", "storing"}

\* the page requests made for dataset d: the first-page request of the sync
\* and the invocations of the collector's units
PageRequests(d) ==
    (sync[d].requests - Len(MetadataEndpoints(d)))
    + Sum([k \in DOMAIN unit[d] |-> unit[d][k].calls])

\* C32: the first page is the one at offset 0; the total is the one of the
\* response metadata, or the number of records returned when the metadata
\* is absent; totalPages = ceil(total / page size); the collector is invoked
\* exactly when totalPages > 1, so that a collection that fits in one page,
\* or is empty, costs exactly one page request.
C32_FirstPageAndPageCount ==
    \A d \in Categories :
        AfterFirstPage(d) =>
            LET returned == Min(total[d], PageLimit)
            IN /\ SubSeq(sync[d].records, 1, returned) = SubSeq(Upstream(d), 1, returned)
               /\ sync[d].total = IF sync[d].hasMeta THEN total[d] ELSE returned
               /\ sync[d].totalPages * PageLimit >= sync[d].total
               /\ (sync[d].totalPages - 1) * PageLimit < sync[d].total
               /\ sync[d].totalPages >= 0
               /\ collector[d].pc # "idle" <=> sync[d].totalPages > 1
               /\ total[d] <= PageLimit =>
                    /\ collector[d].pc = "idle"
                    /\ unit[d] = <<>>
                    /\ PageRequests(d) = 1

\* C32 witness: in one run a dataset that fits in one page has been read
\* with one page request and stored, while the collector was invoked for
\* the other, whose metadata total gives more than one page.
C32_Witness ==
    \E d, e \in Categories :
        /\ total[d] \in 1..PageLimit
        /\ sync[d].pc = "fulfilled" /\ PageRequests(d) = 1
        /\ Len(sync[d].records) = total[d]
        /\ sync[e].hasMeta /\ sync[e].totalPages > 1
        /\ collector[e].pc = "returned" /\ PageRequests(e) > 1

---------------------------------------------------------------------------
(* Limiter: the order of the collected records *)

\* the place of a record in the remote collection: Upstream(c)[n].id = n
UpstreamIndex(r) == r.id
\* the page a record of the remote collection is on
PageOf(r) == CeilDiv(UpstreamIndex(r), PageLimit)

\* C33: the records fetchAllPages returns are in page order: for successful
\* pages p < q every record of page p comes before every record of page q,
\* and the records of a page are in their upstream order, whichever unit of
\* a group settled first; every record of a successful page is among them.
C33_PageOrder ==
    \A c \in Callers :
        collector[c].pc = "returned" =>
            LET all == collector[c].allRecords IN
            /\ \A i \in 1..(Len(all) - 1) :
                  /\ PageOf(all[i]) <= PageOf(all[i + 1])
                  /\ UpstreamIndex(all[i]) < UpstreamIndex(all[i + 1])
            /\ \A i \in DOMAIN all :
                  /\ all[i] = Upstream(c)[UpstreamIndex(all[i])]
                  /\ Success(unit[c][PageOf(all[i])])
            /\ \A k \in DOMAIN unit[c] :
                  Success(unit[c][k]) =>
                      Cardinality({i \in DOMAIN all : PageOf(all[i]) = unit[c][k].page})
                          = PageLimit

\* C33 witness: fetchAllPages has returned the records of two pages of one
\* group of which the earlier one settled last, after a failed attempt and
\* a backoff sleep.
C33_Witness ==
    \E c \in Callers :
        /\ collector[c].pc = "returned"
        /\ \E k, m \in DOMAIN unit[c] :
              /\ k < m /\ GroupOf(k) = GroupOf(m)
              /\ Success(unit[c][k]) /\ unit[c][k].slept # <<>>
              /\ Success(unit[c][m]) /\ unit[c][m].slept = <<>>
              /\ \E i \in DOMAIN collector[c].allRecords :
                    PageOf(collector[c].allRecords[i]) = unit[c][k].page
              /\ \E i \in DOMAIN collector[c].allRecords :
                    PageOf(collector[c].allRecords[i]) = unit[c][m].page

---------------------------------------------------------------------------
(* Store: what every row of the table holds *)

\* C34: in every state, while a store is running, after it resolved and
\* after it failed or was cut short, every chunk in the table has a payload
\* that decompresses and parses to as many records as its record_count
\* says, and that number lies between 1 and the chunk size.
C34_ChunkInvariant ==
    \A k \in DOMAIN ac_sync_data :
        LET row == ac_sync_data[k] IN
        /\ GunzipOk(row.json_data_compressed)
        /\ Len(ChunkRecords(row)) = row.record_count
        /\ row.record_count >= 1
        /\ row.record_count <= BatchSize

\* C34 witness: a store that failed after its first chunks has left a full
\* chunk in the table, next to a shorter last chunk of the other category.
C34_Witness ==
    \E c, d \in Categories :
        /\ c # d
        /\ store[c].pc = "raised" /\ store[c].failed = "chunk"
        /\ \E k \in DOMAIN ac_sync_data :
              /\ ac_sync_data[k].data_type = c
              /\ ac_sync_data[k].record_count = BatchSize
        /\ \E k \in DOMAIN ac_sync_data :
              /\ ac_sync_data[k].data_type = d
              /\ ac_sync_data[k].record_count < BatchSize

---------------------------------------------------------------------------
(* Store: the compressed payload on its way to the table *)

\* the serialized chunk a running store is about to compress
PendingJson(c) == JSONstringify(Batch(store[c].i, store[c].records))

WrittenBy(c) ==
    SelectSeq(ac_sync_data, LAMBDA row : row.data_type = c /\ row.id \in store[c].rows)

---------------------------------------------------------------------------
(* Store: the chunks a failed store left behind *)

\* C36: the chunks a store left behind when it failed part-way are removed
\* by the next successful store of the category: once that store has
\* resolved none of them is in the table, the category holds exactly the
\* chunks the successful store wrote, and getLatest returns exactly its
\* records.
C36_OrphansRemoved ==
    \A c \in Categories :
        (store[c].pc = "done" /\ store[c].orphans # {}) =>
            /\ IdsOf(c) \cap store[c].orphans = {}
            /\ IdsOf(c) = store[c].rows
            /\ Cardinality(store[c].rows) = TotalBatches(store[c].records)
            /\ HasRead(c) => /\ Read.status = "ok"
                             /\ SameBag(Read.records, Serialized(store[c].records))

\* C36 witness: a store that found orphaned chunks has resolved after
\* writing chunks of its own, and the category has been read back.
C36_Witness ==
    \E c \in Categories :
        /\ store[c].pc = "done"
        /\ store[c].orphans # {}
        /\ store[c].rows # {}
        /\ HasRead(c)
        /\ Read.status = "ok"
        /\ Len(Read.records) = Len(store[c].records)

---------------------------------------------------------------------------
(* The run log *)

\* the rows of the run log that carry the id of this run
LogRowsOfRun ==
    SelectSeq(ac_sync_logs, LAMBDA row : row.sync_id = run.syncId)

\* a sync run was started (the request was not turned away with 401)
RunStarted == run.syncId # <<>>

\* C37 as stated: every sync run appends exactly one log record, whatever
\* the outcome of the two dataset syncs: once the run has answered, the log
\* holds exactly one row with its syncId.
C37_ExactlyOneLogRecord ==
    (Responded /\ RunStarted) => Len(LogRowsOfRun) = 1

\* C37, amended: a sync run appends at most one log record, and exactly one
\* unless the INSERT into the log fails (which the run absorbs).  The record
\* is appended in a step taken after both dataset syncs have settled and
\* carries their outcomes; no other step changes the log, so the record is
\* never written twice and never updated.
C37_AtMostOneLogRecord ==
    [][/\ Len(LogRowsOfRun') <= 1
       /\ Len(ac_sync_logs') <= 1
       /\ ac_sync_logs # <<>> => ac_sync_logs' = ac_sync_logs
       /\ ac_sync_logs' # ac_sync_logs =>
             /\ run.pc = "logging" /\ run'.pc = "responded"
             /\ \A d \in Categories : SyncSettled(d)
             /\ sync' = sync
             /\ ac_sync_logs' = <<ac_sync_logs'[1]>>
             /\ ac_sync_logs'[1].sync_id = run.syncId
             /\ ac_sync_logs'[1].contacts_success = Fulfilled("contacts")
             /\ ac_sync_logs'[1].deals_success = Fulfilled("deals")
             /\ ac_sync_logs'[1].overall_success = BothFulfilled
       /\ run.pc \in {"idle", "syncing"} => ac_sync_logs' = <<>>]_vars

\* C37 witness: a run in which one dataset failed and the other was stored
\* has answered, and the log holds its one record.
C37_Witness ==
    /\ Responded /\ RunStarted
    /\ \E d, e \in Categories : Fulfilled(d) /\ sync[e].pc = "rejected"
    /\ Len(ac_sync_logs) = 1
    /\ ac_sync_logs[1].sync_id = run.syncId
    /\ ~ac_sync_logs[1].overall_success

---------------------------------------------------------------------------
(* Store: two runs storing the same category at overlapping times *)

\* the table holds exactly the complete generation invocation c wrote
HoldsGenerationOf(c) ==
    /\ IdsOf(CategoryOf(c)) = store[c].rows
    /\ Cardinality(store[c].rows) = TotalBatches(store[c].records)

\* C38: when two runs store the same category at overlapping times, then
\* however their DELETE and INSERT statements interleave, once both calls
\* have resolved the category holds the chunks of exactly one of the two
\* generations, all of them, and getLatest returns exactly the records of
\* that generation.
C38_OverlappingRunsLeaveOneGeneration ==
    (\A c \in Overlapping : store[c].pc = "done") =>
        \E c \in Overlapping :
            /\ HoldsGenerationOf(c)
            /\ HasRead("contacts") =>
                  /\ Read.status = "ok"
                  /\ SameBag(Read.records, Serialized(store[c].records))

---------------------------------------------------------------------------
(* Limiter: termination *)

\* the steps of one unit: Pending -> Attempting -> Succeeded | Failed, or
\* Attempting -> Retrying -> Attempting with the next attempt number
UnitStep(u, v) ==
    \/ v = u
    \/ /\ u.phase = "pending" /\ v.phase = "calling"
       /\ v.attempt = 0 /\ v.calls = 1
    \/ /\ u.phase = "calling" /\ v.phase = "resolved"
       /\ v.attempt = u.attempt /\ v.calls = u.calls
       /\ ~v.result[1].success => u.attempt = MAX_RETRIES
    \/ /\ u.phase = "calling" /\ v.phase = "sleeping"
       /\ v.attempt = u.attempt /\ u.attempt < MAX_RETRIES
    \/ /\ u.phase = "sleeping" /\ v.phase = "calling"
       /\ v.attempt = u.attempt + 1 /\ v.calls = u.calls + 1

\* C39: provided every invocation of a work unit settles, executeWithRateLimit
\* terminates: each unit moves Pending -> Attempting(k) -> Succeeded |
\* Retrying | Failed and from Retrying to Attempting(k+1), is invoked at most
\* 4 times, and every call of the scheduler leads to its return with every
\* unit Succeeded or Failed.
C39_Terminates ==
    /\ [][\A c \in Callers :
            \A k \in DOMAIN unit[c] \cap DOMAIN unit'[c] :
                UnitStep(unit[c][k], unit'[c][k])]_vars
    /\ [](\A c \in Callers : \A k \in DOMAIN unit[c] :
            /\ unit[c][k].calls <= MAX_RETRIES + 1
            /\ unit[c][k].calls = IF unit[c][k].phase = "pending" THEN 0
                                  ELSE unit[c][k].attempt + 1)
    /\ \A c \in Callers :
          (rl[c].pc = "loop") ~>
              (/\ rl[c].pc = "returned"
               /\ Len(rl[c].results) = rl[c].totalCalls
               /\ \A k \in DOMAIN unit[c] : unit[c][k].phase = "resolved")

\* C39 witness: the scheduler has returned from a call in which one unit
\* failed on all 4 attempts and another succeeded on a retry.
C39_Witness ==
    \E c \in Callers :
        /\ rl[c].pc = "returned"
        /\ \E k \in DOMAIN unit[c] : Failure(unit[c][k]) /\ unit[c][k].calls = 4
        /\ \E k \in DOMAIN unit[c] : Success(unit[c][k]) /\ unit[c][k].calls > 1

====
